---- MODULE Spec2Model ----
(***************************************************************************)
(* Flash font library (BSP/QSPI/flash_font.c) of fkh750xbh6_qspi_fontlib:  *)
(* the validation flag, the two encoding tables in memory-mapped QSPI      *)
(* flash, and the lookups that turn a character into a glyph address.      *)
(*                                                                         *)
(* The flash blob is state: it is written offline and only read here, so   *)
(* Init draws it from bounded sets and no action changes it.  A table is   *)
(* kept as its explicitly populated records plus the record every other    *)
(* position holds (erased flash, or padding), so that all 7464 positions   *)
(* the scans walk over, and the positions after them, exist.               *)
(***************************************************************************)
EXTENDS Integers, Sequences, FiniteSets, TLC

VARIABLES
  flagMagic,           \* FontWriteFlag_t.magic at W25Qxx_Mem_Addr + FONT_FLAG_ADDR
  gbTable,             \* GB2312_TableEntry_t records from GB2312_TABLE_ADDR + 12
  utf8Table,           \* UTF8_TableEntry_t records from UTF8_TABLE_ADDR + 12
  charSigned,          \* whether the build's plain char is signed
  g_font_initialized,  \* flash_font.c: static uint8_t g_font_initialized
  everOk,              \* history: some FlashFont_Init call returned 0
  everFailed,          \* history: some FlashFont_Init call returned < 0
  call,                \* the call that has just returned, or NoCall
  ctx,                 \* per execution context: the frame of the lookup it runs
  lcd,                 \* the text layout engine: settings and the draw in progress
  boot,                \* init_all: the position in it and the calls made so far
  key,                 \* the key driver: callbacks and the handlers invoked
  qspi                 \* QSPI_W25Qxx_WriteBuffer: arguments, locals, page writes

fontVars == <<flagMagic, gbTable, utf8Table, charSigned, g_font_initialized,
              everOk, everFailed, call>>

\* the state of the parts other than the sequential font caller
nonFont == <<ctx, lcd, boot, key, qspi>>

nonCtx == <<fontVars, lcd, boot, key, qspi>>

nonLcd == <<fontVars, ctx, boot, key, qspi>>

nonBoot == <<ctx, key, qspi>>

nonKey == <<fontVars, ctx, lcd, boot, qspi>>

nonQspi == <<fontVars, ctx, lcd, boot, key>>

vars == <<fontVars, nonFont>>

flash == <<flagMagic, gbTable, utf8Table, charSigned>>

-----------------------------------------------------------------------------
(* Program constants                                                        *)

\* A 32-bit unsigned value is kept as <<high half, low half>>, each 16 bits.
\* 0x90000000
W25Qxx_Mem_Addr == <<36864, 0>>

W25Qxx_FlashSize == 33554432

BASE_ADDR == 30408704

FONT_12x12_ADDR == BASE_ADDR + 0
FONT_16x16_ADDR == BASE_ADDR + 179168
FONT_20x20_ADDR == BASE_ADDR + 418048
FONT_24x24_ADDR == BASE_ADDR + 865920
FONT_32x32_ADDR == BASE_ADDR + 1403360
GB2312_TABLE_ADDR == BASE_ADDR + 2358784
UTF8_TABLE_ADDR == BASE_ADDR + 2388688
FONT_FLAG_ADDR == BASE_ADDR + 2454256

\* 0x464C4147 "FLAG"
FLAG_MAGIC == <<17996, 16711>>

\* 0x47423332 "GB23"
FONT_MAGIC == <<18242, 13106>>

FLASHFONT_OK == 0

\* the loop bound of both scans: for (i = 0; i < 7464; i++)
MaxEntries == 7464

\* the bytes before glyph 0 in a font region: "+ 18 +" in the address sums
FontHeaderLen == 18

NULL == <<>>

NullPtr == <<0, 0>>

-----------------------------------------------------------------------------
(* C integer conversions and bit operations                                 *)

ToUint8(v) == v % 256

ToUint16(v) == v % 65536

\* a value 0 <= v < 2^31 as uint32_t
ToUint32(v) == <<(v \div 65536) % 65536, v % 65536>>

\* uint32_t addition, modulo 2^32
Add32(a, b) ==
  LET lo == a[2] + b[2]
      hi == a[1] + b[1] + (lo \div 65536)
  IN <<hi % 65536, lo % 65536>>

ToInt8(v) == LET m == v % 256 IN IF m >= 128 THEN m - 256 ELSE m

ToInt16(v) == LET m == v % 65536 IN IF m >= 32768 THEN m - 65536 ELSE m

\* the value of a plain char that holds byte b
CharValue(b, signed) == IF signed /\ b >= 128 THEN b - 256 ELSE b

RECURSIVE BitAnd(_, _)
BitAnd(a, b) ==
  IF a = 0 \/ b = 0 THEN 0
  ELSE (IF a % 2 = 1 /\ b % 2 = 1 THEN 1 ELSE 0) + 2 * BitAnd(a \div 2, b \div 2)

RECURSIVE BitOr(_, _)
BitOr(a, b) ==
  IF a = 0 THEN b
  ELSE IF b = 0 THEN a
  ELSE (IF a % 2 = 1 \/ b % 2 = 1 THEN 1 ELSE 0) + 2 * BitOr(a \div 2, b \div 2)

ShiftLeft8(v) == v * 256

-----------------------------------------------------------------------------
(* Flash contents                                                           *)

GBRec(code, idx) == [gbk_code |-> code, index |-> idx]

U8Rec(len, bytes, idx) == [utf8_len |-> len, utf8 |-> bytes, index |-> idx]

\* pEntry[i] of GB2312_FindIndex_Flash
GBEntry(i) == IF i \in DOMAIN gbTable.expl THEN gbTable.expl[i] ELSE gbTable.fill

\* pEntry[i] of UTF8_FindIndex_Flash
U8Entry(i) == IF i \in DOMAIN utf8Table.expl THEN utf8Table.expl[i] ELSE utf8Table.fill

-----------------------------------------------------------------------------
(* flash_font.c, function by function                                       *)

\* GetFontBaseAddr falling back to the 16x16 region for an unknown size
GetFontBaseAddr_Default16(font_size) ==
  CASE font_size = 12 -> FONT_12x12_ADDR
    [] font_size = 16 -> FONT_16x16_ADDR
    [] font_size = 20 -> FONT_20x20_ADDR
    [] font_size = 24 -> FONT_24x24_ADDR
    [] font_size = 32 -> FONT_32x32_ADDR
    [] OTHER -> FONT_16x16_ADDR

\* static uint32_t GetFontBaseAddr(uint8_t font_size)
GetFontBaseAddr(font_size) ==
  CASE font_size = 12 -> FONT_12x12_ADDR
    [] font_size = 16 -> FONT_16x16_ADDR
    [] font_size = 20 -> FONT_20x20_ADDR
    [] font_size = 24 -> FONT_24x24_ADDR
    [] font_size = 32 -> FONT_32x32_ADDR
    [] OTHER -> 0

\* FlashFont_Init with the flag set before the magic is tested
FlashFont_Init_FlagFirst ==
  IF flagMagic # FLAG_MAGIC
  THEN [ret |-> ToInt8(-1), g |-> 1]
  ELSE [ret |-> ToInt8(FLASHFONT_OK), g |-> 1]

\* FlashFont_Init testing the font regions' magic instead of the flag's
FlashFont_Init_FontMagic ==
  IF flagMagic # FONT_MAGIC
  THEN [ret |-> ToInt8(-1), g |-> g_font_initialized]
  ELSE [ret |-> ToInt8(FLASHFONT_OK), g |-> 1]

\* FlashFont_Init giving in on a retry: a call after a failed one sets the flag
FlashFont_Init_SetOnRetry ==
  IF flagMagic # FLAG_MAGIC
  THEN [ret |-> ToInt8(-1), g |-> IF everFailed THEN 1 ELSE g_font_initialized]
  ELSE [ret |-> ToInt8(FLASHFONT_OK), g |-> 1]

\* FlashFont_Init clearing the flag when the magic is wrong
FlashFont_Init_ClearOnFail ==
  IF flagMagic # FLAG_MAGIC
  THEN [ret |-> ToInt8(-1), g |-> 0]
  ELSE [ret |-> ToInt8(FLASHFONT_OK), g |-> 1]

\* int8_t FlashFont_Init(void): the value returned and the flag afterwards
FlashFont_Init ==
  IF flagMagic # FLAG_MAGIC
  THEN [ret |-> ToInt8(-1), g |-> g_font_initialized]
  ELSE [ret |-> ToInt8(FLASHFONT_OK), g |-> 1]

\* FlashFont_BytesPerChar for bitmaps packed without padding each row to a byte
FlashFont_BytesPerChar_Packed(font_size) ==
  ToInt16(IF font_size \in {12, 16, 20, 24, 32}
          THEN (font_size * font_size + 7) \div 8
          ELSE -1)

\* FlashFont_BytesPerChar with four bytes for each row of a 20x20 glyph
FlashFont_BytesPerChar_Row4(font_size) ==
  ToInt16(CASE font_size = 12 -> 24
            [] font_size = 16 -> 32
            [] font_size = 20 -> 80
            [] font_size = 24 -> 72
            [] font_size = 32 -> 128
            [] OTHER -> -1)

FlashFont_BytesPerChar(font_size) ==
  ToInt16(CASE font_size = 12 -> 24
            [] font_size = 16 -> 32
            [] font_size = 20 -> 60
            [] font_size = 24 -> 72
            [] font_size = 32 -> 128
            [] OTHER -> -1)

\* SearchGbk with search_gbk declared uint32_t: no truncation to 16 bits
SearchGbk_Wide(text) ==
  BitOr(ShiftLeft8(ToUint16(CharValue(text[1], charSigned))),
        ToUint8(CharValue(text[2], charSigned)))

\* search_gbk = ((uint16_t)text[0] << 8) | (uint8_t)text[1];
\* the cast binds before the shift, the shift and the | are done in int,
\* the assignment truncates to uint16_t
SearchGbk(text) ==
  ToUint16(BitOr(ShiftLeft8(ToUint16(CharValue(text[1], charSigned))),
                 ToUint8(CharValue(text[2], charSigned))))

\* GB2312_Scan with the sentinel test left out, as in the UTF-8 loop
GB2312_Scan_NoSentinel(search_gbk) ==
  LET Hit(i) == GBEntry(i).gbk_code = search_gbk
  IN IF \E i \in 0..(MaxEntries - 1) : Hit(i)
     THEN LET f == CHOOSE i \in 0..(MaxEntries - 1) :
                     Hit(i) /\ \A j \in 0..(i - 1) : ~Hit(j)
          IN [ret |-> ToInt16(GBEntry(f).index), reads |-> f + 1]
     ELSE [ret |-> -1, reads |-> MaxEntries]

\* the for loop of GB2312_FindIndex_Flash: the value returned and the number
\* of table records read
GB2312_Scan(search_gbk) ==
  LET StopAt(e) == e.gbk_code = 65535 \/ e.gbk_code = search_gbk
      expl == gbTable.expl
      populated == DOMAIN expl
      fillStops == StopAt(gbTable.fill)
      \* pEntry[i] ends the loop, by the break or by the return
      Stop(i) == IF i \in populated THEN StopAt(expl[i]) ELSE fillStops
  IN IF \E i \in 0..(MaxEntries - 1) : Stop(i)
     THEN LET f == CHOOSE i \in 0..(MaxEntries - 1) :
                     Stop(i) /\ \A j \in 0..(i - 1) : ~Stop(j)
          IN IF GBEntry(f).gbk_code = 65535
             THEN [ret |-> -1, reads |-> f + 1]
             ELSE [ret |-> ToInt16(GBEntry(f).index), reads |-> f + 1]
     ELSE [ret |-> -1, reads |-> MaxEntries]

\* int16_t GB2312_FindIndex_Flash(const char *text), text pointing at two bytes
GB2312_FindIndex_Flash(text) ==
  IF g_font_initialized = 0
  THEN [ret |-> -1, key |-> -1, reads |-> 0]
  ELSE LET search_gbk == SearchGbk(text)
           r == GB2312_Scan(search_gbk)
       IN [ret |-> r.ret, key |-> search_gbk, reads |-> r.reads]

\* GB2312_GlyphAddr with the tables' 12-byte header length in place of 18
GB2312_GlyphAddr_Header12(index, font_size) ==
  LET font_offset == GetFontBaseAddr(font_size)
      bytes_per_char == ToUint16(FlashFont_BytesPerChar(font_size))
  IN IF font_offset = 0
     THEN NullPtr
     ELSE Add32(Add32(Add32(W25Qxx_Mem_Addr, ToUint32(font_offset)), ToUint32(12)),
                ToUint32(index * bytes_per_char))

\* lines 155-163 of GB2312_FindFont_Flash, index >= 0
GB2312_GlyphAddr(index, font_size) ==
  LET font_offset == GetFontBaseAddr(font_size)
      bytes_per_char == ToUint16(FlashFont_BytesPerChar(font_size))
  IN IF font_offset = 0
     THEN NullPtr
     ELSE Add32(Add32(Add32(W25Qxx_Mem_Addr, ToUint32(font_offset)),
                      ToUint32(FontHeaderLen)),
                ToUint32(index * bytes_per_char))

\* const uint8_t *GB2312_FindFont_Flash(const char *text, uint8_t font_size)
GB2312_FindFont_Flash(text, font_size) ==
  LET found == GB2312_FindIndex_Flash(text)
  IN [ret |-> IF found.ret < 0 THEN NullPtr
              ELSE GB2312_GlyphAddr(found.ret, font_size),
      index |-> found.ret, key |-> found.key, reads |-> found.reads]

\* UTF8_Scan with the inner loop stopping one byte early (j < utf8_len - 1)
UTF8_Scan_ShortCompare(utf8_text, utf8_len) ==
  LET Match(i) == /\ U8Entry(i).utf8_len = utf8_len
                  /\ \A j \in 1..(utf8_len - 1) : U8Entry(i).utf8[j] = utf8_text[j]
  IN IF \E i \in 0..(MaxEntries - 1) : Match(i)
     THEN LET f == CHOOSE i \in 0..(MaxEntries - 1) :
                     Match(i) /\ \A j \in 0..(i - 1) : ~Match(j)
          IN [ret |-> ToInt16(U8Entry(f).index), reads |-> f + 1]
     ELSE [ret |-> -1, reads |-> MaxEntries]

\* UTF8_Scan without the return inside the loop: the last matching record's
\* index is kept and returned after the loop
UTF8_Scan_LastMatch(utf8_text, utf8_len) ==
  LET Match(i) == /\ U8Entry(i).utf8_len = utf8_len
                  /\ \A j \in 1..utf8_len : U8Entry(i).utf8[j] = utf8_text[j]
  IN IF \E i \in 0..(MaxEntries - 1) : Match(i)
     THEN LET f == CHOOSE i \in 0..(MaxEntries - 1) :
                     Match(i) /\ \A j \in (i + 1)..(MaxEntries - 1) : ~Match(j)
          IN [ret |-> ToInt16(U8Entry(f).index), reads |-> MaxEntries]
     ELSE [ret |-> -1, reads |-> MaxEntries]

\* the for loops of UTF8_FindIndex_Flash
UTF8_Scan(utf8_text, utf8_len) ==
  LET MatchAt(e) == /\ e.utf8_len = utf8_len
                    /\ \A j \in 1..utf8_len : e.utf8[j] = utf8_text[j]
      expl == utf8Table.expl
      populated == DOMAIN expl
      fillMatches == MatchAt(utf8Table.fill)
      \* pEntry[i] passes the length test and the byte comparison
      Match(i) == IF i \in populated THEN MatchAt(expl[i]) ELSE fillMatches
  IN IF \E i \in 0..(MaxEntries - 1) : Match(i)
     THEN LET f == CHOOSE i \in 0..(MaxEntries - 1) :
                     Match(i) /\ \A j \in 0..(i - 1) : ~Match(j)
          IN [ret |-> ToInt16(U8Entry(f).index), reads |-> f + 1]
     ELSE [ret |-> -1, reads |-> MaxEntries]

\* int16_t UTF8_FindIndex_Flash(const uint8_t *utf8_text, uint8_t utf8_len)
UTF8_FindIndex_Flash(utf8_text, utf8_len) ==
  IF g_font_initialized = 0
  THEN [ret |-> -1, reads |-> 0]
  ELSE IF utf8_len < 1 \/ utf8_len > 4 \/ utf8_text = NULL
  THEN [ret |-> -1, reads |-> 0]
  ELSE UTF8_Scan(utf8_text, utf8_len)

\* GetUTF8CharLen with the mask 0xF0 in the four-byte test
GetUTF8CharLen_MaskF0(pText) ==
  IF pText = NULL THEN 0
  ELSE LET first_byte == pText[1]
       IN IF BitAnd(first_byte, 128) = 0 THEN 1
          ELSE IF BitAnd(first_byte, 224) = 192 THEN 2
          ELSE IF BitAnd(first_byte, 240) = 224 THEN 3
          ELSE IF BitAnd(first_byte, 240) = 240 THEN 4
          ELSE 1

\* GetUTF8CharLen returning 0 where no pattern matches
GetUTF8CharLen_Zero(pText) ==
  IF pText = NULL THEN 0
  ELSE LET first_byte == pText[1]
       IN IF BitAnd(first_byte, 128) = 0 THEN 1
          ELSE IF BitAnd(first_byte, 224) = 192 THEN 2
          ELSE IF BitAnd(first_byte, 240) = 224 THEN 3
          ELSE IF BitAnd(first_byte, 248) = 240 THEN 4
          ELSE 0

\* static uint8_t GetUTF8CharLen(const uint8_t *pText)
GetUTF8CharLen(pText) ==
  IF pText = NULL THEN 0
  ELSE LET first_byte == pText[1]
       IN IF BitAnd(first_byte, 128) = 0 THEN 1
          ELSE IF BitAnd(first_byte, 224) = 192 THEN 2
          ELSE IF BitAnd(first_byte, 240) = 224 THEN 3
          ELSE IF BitAnd(first_byte, 248) = 240 THEN 4
          ELSE 1

\* UTF8_GlyphAddr with the stride of the 16x16 font at every size
UTF8_GlyphAddr_Stride32(index, font_size) ==
  LET font_offset == GetFontBaseAddr(font_size)
  IN IF font_offset = 0
     THEN NullPtr
     ELSE Add32(Add32(Add32(W25Qxx_Mem_Addr, ToUint32(font_offset)),
                      ToUint32(FontHeaderLen)),
                ToUint32(index * 32))

\* lines 255-263 of UTF8_FindFont_Flash, index >= 0
UTF8_GlyphAddr(index, font_size) ==
  LET font_offset == GetFontBaseAddr(font_size)
      bytes_per_char == ToUint16(FlashFont_BytesPerChar(font_size))
  IN IF font_offset = 0
     THEN NullPtr
     ELSE Add32(Add32(Add32(W25Qxx_Mem_Addr, ToUint32(font_offset)),
                      ToUint32(FontHeaderLen)),
                ToUint32(index * bytes_per_char))

\* const uint8_t *UTF8_FindFont_Flash(const uint8_t *utf8_text, uint8_t font_size)
UTF8_FindFont_Flash(utf8_text, font_size) ==
  LET utf8_len == GetUTF8CharLen(utf8_text)
      found == UTF8_FindIndex_Flash(utf8_text, utf8_len)
  IN [ret |-> IF found.ret < 0 THEN NullPtr
              ELSE UTF8_GlyphAddr(found.ret, font_size),
      index |-> found.ret, utf8_len |-> utf8_len, reads |-> found.reads]

-----------------------------------------------------------------------------
(* Bounds and input sets                                                    *)

\* number of leading table positions populated record by record
HeadLen == 2

\* "你" and "好" in GBK, and the two bytes 0xFF 0xFF
GBTexts == {<<196, 227>>, <<186, 195>>, <<255, 255>>}

\* "你" in UTF-8 and the same with another third byte, in four-byte buffers
U8Texts == {<<228, 189, 160, 0>>, <<228, 189, 161, 0>>}

U8Lens == 0..5

FontSizes == {12, 16, 20, 24, 32}

SizesTried == FontSizes \cup {14}

Magics == {FLAG_MAGIC, FONT_MAGIC, <<65535, 65535>>}

GBErased == GBRec(65535, 65535)

GBPad == GBRec(41377, 0)

GBRecords == {GBRec(50403, 5), GBRec(50403, 32768), GBRec(47811, 32767), GBErased}

U8Erased == U8Rec(255, <<255, 255, 255, 255>>, 65535)

U8Records ==
  {U8Rec(1, <<228, 0, 0, 0>>, 9),          \* the first byte of "你"
   U8Rec(2, <<228, 189, 0, 0>>, 32767),    \* the first two bytes of "你"
   U8Rec(3, <<228, 189, 160, 0>>, 5),      \* "你"
   U8Rec(3, <<228, 189, 160, 0>>, 7),      \* "你" a second time
   U8Rec(3, <<228, 189, 161, 0>>, 6),      \* differs in the third byte
   U8Rec(4, <<228, 189, 160, 0>>, 32768)}  \* "你" and a fourth byte

\* the positions around the end of the scanned range
LatePositions == {MaxEntries - 1, MaxEntries}

GBFixture == [expl |-> (0 :> GBRec(50403, 5) @@ 1 :> GBRec(47811, 6)), fill |-> GBErased]

U8Fixture ==
  [expl |-> (0 :> U8Rec(3, <<228, 189, 160, 0>>, 5) @@ 1 :> U8Rec(3, <<229, 165, 189, 0>>, 6)),
   fill |-> U8Erased]

\* tables whose first HeadLen records vary, erased after them
GBHeadTables == {[expl |-> h, fill |-> GBErased] : h \in [0..(HeadLen - 1) -> GBRecords]}

\* tables padded with another character's record, "你" near the end
GBLateTables == {[expl |-> (p :> GBRec(50403, 5)), fill |-> GBPad] : p \in LatePositions}

GBTables == GBHeadTables \cup GBLateTables

U8HeadTables == {[expl |-> h, fill |-> U8Erased] : h \in [0..(HeadLen - 1) -> U8Records]}

\* erased tables, "你" near the end
U8LateTables ==
  {[expl |-> (p :> U8Rec(3, <<228, 189, 160, 0>>, 5)), fill |-> U8Erased] : p \in LatePositions}

U8Tables == U8HeadTables \cup U8LateTables

-----------------------------------------------------------------------------
(* The state machine: one action per exported function, called by one       *)
(* caller that takes each result before it calls again (spec.md section 5). *)

NoCall == [op |-> "none"]

\* the execution contexts lookups are run from: the main loop and a handler
Contexts == {"main", "irq"}

\* the frame of a context that runs no lookup
NoFrame ==
  [pc |-> "idle", fn |-> "none", text |-> NULL, size |-> 0, len |-> 0,
   key |-> 0, i |-> 0, index |-> 0, ret |-> 0]

\* the parts other than the sequential font caller, at rest
CtxAtRest == ctx = [c \in Contexts |-> NoFrame]

\* parts of the firmware a specification does not run
Off == [pc |-> "off"]

AtRest == CtxAtRest /\ lcd = Off /\ boot = Off /\ key = Off /\ qspi = Off

Init ==
  /\ flagMagic \in Magics
  /\ \/ gbTable \in GBTables /\ utf8Table = U8Fixture
     \/ gbTable = GBFixture /\ utf8Table \in U8Tables
  /\ charSigned \in BOOLEAN
  /\ g_font_initialized = 0
  /\ everOk = FALSE
  /\ everFailed = FALSE
  /\ call = NoCall
  /\ AtRest

CallFlashFont_Init ==
  /\ LET r == FlashFont_Init
     IN /\ g_font_initialized' = r.g
        /\ everOk' = (everOk \/ r.ret = 0)
        /\ everFailed' = (everFailed \/ r.ret < 0)
        /\ call' = [op |-> "FlashFont_Init", ret |-> r.ret, gPre |-> g_font_initialized]
  /\ UNCHANGED <<flash, nonFont>>

CallFlashFont_BytesPerChar(font_size) ==
  /\ call' = [op |-> "FlashFont_BytesPerChar", size |-> font_size,
              ret |-> FlashFont_BytesPerChar(font_size)]
  /\ UNCHANGED <<flash, g_font_initialized, everOk, everFailed, nonFont>>

\* What text points at.  A NULL text is dereferenced once the flag is set
\* (no check, line 122): the two bytes at address 0 are whatever is there.
Pointee(text, mem) == IF text = NULL /\ g_font_initialized # 0 THEN mem ELSE {text}

CallGB2312_FindIndex_Flash(text, mem) ==
  /\ \E bytes \in Pointee(text, mem) :
       LET r == GB2312_FindIndex_Flash(bytes)
       IN call' = [op |-> "GB2312_FindIndex_Flash", text |-> text, bytes |-> bytes,
                   ret |-> r.ret, key |-> r.key, reads |-> r.reads]
  /\ UNCHANGED <<flash, g_font_initialized, everOk, everFailed, nonFont>>

CallGB2312_FindFont_Flash(text, font_size, mem) ==
  /\ \E bytes \in Pointee(text, mem) :
       LET r == GB2312_FindFont_Flash(bytes, font_size)
       IN call' = [op |-> "GB2312_FindFont_Flash", text |-> text, bytes |-> bytes,
                   size |-> font_size, ret |-> r.ret, index |-> r.index,
                   key |-> r.key, reads |-> r.reads]
  /\ UNCHANGED <<flash, g_font_initialized, everOk, everFailed, nonFont>>

CallUTF8_FindIndex_Flash(utf8_text, utf8_len) ==
  /\ LET r == UTF8_FindIndex_Flash(utf8_text, utf8_len)
     IN call' = [op |-> "UTF8_FindIndex_Flash", text |-> utf8_text, len |-> utf8_len,
                 ret |-> r.ret, reads |-> r.reads]
  /\ UNCHANGED <<flash, g_font_initialized, everOk, everFailed, nonFont>>

CallUTF8_FindFont_Flash(utf8_text, font_size) ==
  /\ LET r == UTF8_FindFont_Flash(utf8_text, font_size)
     IN call' = [op |-> "UTF8_FindFont_Flash", text |-> utf8_text, len |-> r.utf8_len,
                 size |-> font_size, ret |-> r.ret, index |-> r.index,
                 reads |-> r.reads]
  /\ UNCHANGED <<flash, g_font_initialized, everOk, everFailed, nonFont>>

\* the caller takes the result
Return ==
  /\ call # NoCall
  /\ call' = NoCall
  /\ UNCHANGED <<flash, g_font_initialized, everOk, everFailed, nonFont>>

\* the caller is between calls
Idle == call = NoCall

Next ==
  \/ Idle /\ CallFlashFont_Init
  \/ Idle /\ \E s \in SizesTried : CallFlashFont_BytesPerChar(s)
  \/ Idle /\ \E t \in GBTexts \cup {NULL} : CallGB2312_FindIndex_Flash(t, GBTexts)
  \/ Idle /\ \E t \in GBTexts \cup {NULL}, s \in SizesTried :
               CallGB2312_FindFont_Flash(t, s, GBTexts)
  \/ Idle /\ \E t \in U8Texts \cup {NULL}, n \in U8Lens : CallUTF8_FindIndex_Flash(t, n)
  \/ Idle /\ \E t \in U8Texts \cup {NULL}, s \in SizesTried : CallUTF8_FindFont_Flash(t, s)
  \/ Return

Spec == Init /\ [][Next]_vars

-----------------------------------------------------------------------------
(* The same functions over every byte value, on one flashed blob            *)

Byte == 0..255

InitBytes ==
  /\ flagMagic = FLAG_MAGIC
  /\ gbTable = GBFixture
  /\ utf8Table = U8Fixture
  /\ charSigned \in BOOLEAN
  /\ g_font_initialized = 0
  /\ everOk = FALSE
  /\ everFailed = FALSE
  /\ call = NoCall
  /\ AtRest

NextBytes ==
  \/ Idle /\ CallFlashFont_Init
  \/ Idle /\ \E s \in Byte : CallFlashFont_BytesPerChar(s)
  \/ Idle /\ \E b0 \in Byte, b1 \in Byte : CallGB2312_FindIndex_Flash(<<b0, b1>>, GBTexts)
  \/ Idle /\ \E b \in Byte : CallUTF8_FindFont_Flash(<<b, 189, 160, 0>>, 16)
  \/ Idle /\ \E t \in GBTexts, s \in Byte : CallGB2312_FindFont_Flash(t, s, GBTexts)
  \/ Idle /\ \E t \in U8Texts, s \in Byte : CallUTF8_FindFont_Flash(t, s)
  \/ Return

SpecBytes == InitBytes /\ [][NextBytes]_vars

-----------------------------------------------------------------------------
(* The font functions on a flash whose validation flag is erased and        *)
(* written again between calls (the blob being re-programmed in the field)  *)

\* the sector holding the validation flag has been erased: it reads 0xFF
FlagSectorErased ==
  /\ flagMagic' = <<65535, 65535>>
  /\ UNCHANGED <<gbTable, utf8Table, charSigned, g_font_initialized, everOk,
                 everFailed, call, nonFont>>

\* the validation flag has been programmed again
FlagWritten ==
  /\ flagMagic' = FLAG_MAGIC
  /\ UNCHANGED <<gbTable, utf8Table, charSigned, g_font_initialized, everOk,
                 everFailed, call, nonFont>>

InitReflash ==
  /\ flagMagic \in Magics
  /\ gbTable \in {GBFixture} \cup GBLateTables
  /\ utf8Table \in {U8Fixture} \cup U8LateTables
  /\ charSigned \in BOOLEAN
  /\ g_font_initialized = 0
  /\ everOk = FALSE
  /\ everFailed = FALSE
  /\ call = NoCall
  /\ AtRest

NextReflash ==
  \/ Idle /\ flagMagic = FLAG_MAGIC /\ FlagSectorErased
  \/ Idle /\ flagMagic # FLAG_MAGIC /\ FlagWritten
  \/ Idle /\ CallFlashFont_Init
  \/ Idle /\ \E t \in GBTexts : CallGB2312_FindIndex_Flash(t, GBTexts)
  \/ Idle /\ \E t \in GBTexts, s \in SizesTried : CallGB2312_FindFont_Flash(t, s, GBTexts)
  \/ Idle /\ \E t \in U8Texts, n \in U8Lens : CallUTF8_FindIndex_Flash(t, n)
  \/ Idle /\ \E t \in U8Texts, s \in SizesTried : CallUTF8_FindFont_Flash(t, s)
  \/ Return

SpecReflash == InitReflash /\ [][NextReflash]_vars

-----------------------------------------------------------------------------
(* The font functions over every glyph index of the blob: where in the      *)
(* flash the glyphs returned and the table records read lie                 *)

\* the bytes before the first record of an encoding table
TableHeaderLen == 12

\* sizeof(GB2312_TableEntry_t), two uint16_t, and sizeof(UTF8_TableEntry_t), packed
GB2312_TableEntry_Size == 4

UTF8_TableEntry_Size == 8

\* the flash offset after pEntry[reads - 1] of the legacy table
GB2312_ReadEnd(reads) == GB2312_TABLE_ADDR + TableHeaderLen + reads * GB2312_TableEntry_Size

\* the flash offset after pEntry[reads - 1] of the UTF-8 table
UTF8_ReadEnd(reads) == UTF8_TABLE_ADDR + TableHeaderLen + reads * UTF8_TableEntry_Size

\* legacy tables whose record 0 maps "你" to glyph i, for every glyph of a font
GBIndexTables ==
  {[expl |-> (0 :> GBRec(50403, i)), fill |-> GBErased] : i \in 0..(MaxEntries - 1)}

\* UTF-8 tables whose record 0 maps "你" to glyph i
U8IndexTables ==
  {[expl |-> (0 :> U8Rec(3, <<228, 189, 160, 0>>, i)), fill |-> U8Erased] :
     i \in 0..(MaxEntries - 1)}

InitLayout ==
  /\ flagMagic = FLAG_MAGIC
  /\ \/ gbTable \in GBIndexTables \cup GBLateTables /\ utf8Table = U8Fixture
     \/ gbTable = GBFixture /\ utf8Table \in U8IndexTables \cup U8LateTables
  /\ charSigned = FALSE
  /\ g_font_initialized = 0
  /\ everOk = FALSE
  /\ everFailed = FALSE
  /\ call = NoCall
  /\ AtRest

NextLayout ==
  \/ Idle /\ CallFlashFont_Init
  \/ Idle /\ CallGB2312_FindIndex_Flash(<<196, 227>>, GBTexts)
  \/ Idle /\ \E s \in FontSizes : CallGB2312_FindFont_Flash(<<196, 227>>, s, GBTexts)
  \/ Idle /\ CallUTF8_FindIndex_Flash(<<228, 189, 160, 0>>, 3)
  \/ Idle /\ \E s \in FontSizes : CallUTF8_FindFont_Flash(<<228, 189, 160, 0>>, s)
  \/ Return

SpecLayout == InitLayout /\ [][NextLayout]_vars

-----------------------------------------------------------------------------
(* Lookups run from several execution contexts.  A lookup is a sequence of  *)
(* steps, one per read of shared memory (the ready flag, one table record)  *)
(* and one for the address sum; its parameters and local variables are      *)
(* automatic, one instance per call.  Steps of different contexts           *)
(* interleave in any order.                                                 *)

IndexFns == {"GB2312_FindIndex_Flash", "UTF8_FindIndex_Flash"}

FontFns == {"GB2312_FindFont_Flash", "UTF8_FindFont_Flash"}

GBFns == {"GB2312_FindIndex_Flash", "GB2312_FindFont_Flash"}

\* the frame with search_gbk and i declared static: one instance, the one the
\* main loop's call writes
Frame_Static(c) == [ctx[c] EXCEPT !.key = ctx["main"].key, !.i = ctx["main"].i]

\* the parameters and automatic variables of the call running in context c
Frame(c) == ctx[c]

\* the call is entered with its arguments
EnterFrame(fn, text, len, size) ==
  [NoFrame EXCEPT !.pc = IF fn = "FlashFont_BytesPerChar" THEN "body" ELSE "flag",
                  !.fn = fn, !.text = text, !.size = size,
                  !.len = IF fn = "UTF8_FindFont_Flash" THEN GetUTF8CharLen(text) ELSE len]

\* the index lookup returns idx: to the caller, or to the font lookup's line
\* "int16_t index = ..."
IndexReturns(f, idx) ==
  IF f.fn \in IndexFns
  THEN [f EXCEPT !.pc = "done", !.index = idx, !.ret = idx]
  ELSE [f EXCEPT !.pc = "addr", !.index = idx]

\* if (!g_font_initialized) return -1; the UTF-8 argument test; the key
StepFlag(f) ==
  IF g_font_initialized = 0 THEN IndexReturns(f, -1)
  ELSE IF f.fn \in GBFns
  THEN [f EXCEPT !.pc = "scan", !.key = SearchGbk(f.text), !.i = 0]
  ELSE IF f.len < 1 \/ f.len > 4 \/ f.text = NULL THEN IndexReturns(f, -1)
  ELSE [f EXCEPT !.pc = "scan", !.i = 0]

\* one pass of for (uint32_t i = 0; i < 7464; i++): the test and pEntry[i]
StepScan(f) ==
  IF f.i >= MaxEntries THEN IndexReturns(f, -1)
  ELSE IF f.fn \in GBFns
  THEN LET e == GBEntry(f.i)
       IN IF e.gbk_code = 65535 THEN IndexReturns(f, -1)
          ELSE IF e.gbk_code = f.key THEN IndexReturns(f, ToInt16(e.index))
          ELSE [f EXCEPT !.i = @ + 1]
  ELSE LET e == U8Entry(f.i)
       IN IF e.utf8_len = f.len /\ \A j \in 1..f.len : e.utf8[j] = f.text[j]
          THEN IndexReturns(f, ToInt16(e.index))
          ELSE [f EXCEPT !.i = @ + 1]

\* if (index < 0) return NULL; ... return the address
StepAddr(f) ==
  [f EXCEPT !.pc = "done",
            !.ret = IF f.index < 0 THEN NullPtr
                    ELSE IF f.fn = "GB2312_FindFont_Flash"
                    THEN GB2312_GlyphAddr(f.index, f.size)
                    ELSE UTF8_GlyphAddr(f.index, f.size)]

StepBody(f) == [f EXCEPT !.pc = "done", !.ret = FlashFont_BytesPerChar(f.size)]

CtxBegin(c, fn, text, len, size) ==
  /\ ctx[c].pc = "idle"
  /\ ctx' = [ctx EXCEPT ![c] = EnterFrame(fn, text, len, size)]
  /\ UNCHANGED nonCtx

CtxStep(c) ==
  /\ ctx[c].pc \in {"flag", "scan", "addr", "body"}
  /\ LET f == Frame(c)
     IN ctx' = [ctx EXCEPT ![c] = CASE f.pc = "flag" -> StepFlag(f)
                                    [] f.pc = "scan" -> StepScan(f)
                                    [] f.pc = "addr" -> StepAddr(f)
                                    [] f.pc = "body" -> StepBody(f)
                                    [] OTHER -> f]
  /\ UNCHANGED nonCtx

\* the context takes the result
CtxReturn(c) ==
  /\ ctx[c].pc = "done"
  /\ ctx' = [ctx EXCEPT ![c] = NoFrame]
  /\ UNCHANGED nonCtx

\* FlashFont_Init, called while no lookup is running
CtxFlashFont_Init ==
  /\ \A c \in Contexts : ctx[c].pc = "idle"
  /\ LET r == FlashFont_Init
     IN /\ g_font_initialized' = r.g
        /\ everOk' = (everOk \/ r.ret = 0)
        /\ everFailed' = (everFailed \/ r.ret < 0)
  /\ UNCHANGED <<flash, call, ctx, lcd, boot, key, qspi>>

\* "你", "好" and a character the fixture tables do not hold
CtxGBTexts == {<<196, 227>>, <<186, 195>>, <<176, 161>>}

CtxU8Texts == {<<228, 189, 160, 0>>, <<229, 165, 189, 0>>}

\* "你" with another third byte: in no record, the scan runs to the bound
CtxU8Missing == <<228, 189, 161, 0>>

CtxSizes == {16, 14}

InitCtx ==
  /\ flagMagic \in {FLAG_MAGIC, <<65535, 65535>>}
  /\ gbTable = GBFixture
  /\ utf8Table = U8Fixture
  /\ charSigned \in BOOLEAN
  /\ g_font_initialized = 0
  /\ everOk = FALSE
  /\ everFailed = FALSE
  /\ call = NoCall
  /\ AtRest

NextCtx ==
  \/ CtxFlashFont_Init
  \/ \E c \in Contexts, s \in CtxSizes : CtxBegin(c, "FlashFont_BytesPerChar", NULL, 0, s)
  \/ \E c \in Contexts, t \in CtxGBTexts : CtxBegin(c, "GB2312_FindIndex_Flash", t, 0, 0)
  \/ \E c \in Contexts, t \in CtxGBTexts, s \in CtxSizes :
       CtxBegin(c, "GB2312_FindFont_Flash", t, 0, s)
  \/ \E c \in Contexts, t \in CtxU8Texts, n \in {3, 5} :
       CtxBegin(c, "UTF8_FindIndex_Flash", t, n, 0)
  \/ CtxBegin("main", "UTF8_FindIndex_Flash", CtxU8Missing, 3, 0)
  \/ \E c \in Contexts, t \in CtxU8Texts, s \in CtxSizes :
       CtxBegin(c, "UTF8_FindFont_Flash", t, 0, s)
  \/ \E c \in Contexts : CtxStep(c)
  \/ \E c \in Contexts : CtxReturn(c)

SpecCtx == InitCtx /\ [][NextCtx]_vars

-----------------------------------------------------------------------------
(* The text layout engine, LCD_DisplayText (spec.md 4.2 and 4.6).  Its      *)
(* source is not among the files; lcd_spi.h declares it and sets the        *)
(* display's size and the encoding switch.                                  *)

LCD_Height == 320

\* the display's width taken from LCD_Height
LCD_Width_Swapped == LCD_Height

LCD_Width == 240

\* the left margin a wrap returns to
LeftMargin == 0

\* the font size in force before LCD_SetTextFont is called (README.md)
DefaultFont == 24

\* 4.2 classify(bytes) -> (Key, bytes_consumed)
Classify(rem, legacy) ==
  LET b == rem[1]
  IN IF b < 128 THEN [kind |-> "ascii", consumed |-> 1]
     ELSE IF legacy /\ b \in 129..254 THEN [kind |-> "legacy", consumed |-> 2]
     ELSE [kind |-> "utf8", consumed |-> GetUTF8CharLen(rem)]

\* the bytes at the text pointer, as far as a lookup reads them: the string's
\* bytes, then its terminator
AtPointer(rem, n) == [j \in 1..n |-> IF j <= Len(rem) THEN rem[j] ELSE 0]

\* 4.6 step 3: whether the glyph resolves, at the current font size
Resolves(rem, kind, font) ==
  CASE kind = "ascii" -> rem[1] \in 32..126
    [] kind = "legacy" -> GB2312_FindFont_Flash(AtPointer(rem, 2), font).ret # NullPtr
    [] kind = "utf8" -> UTF8_FindFont_Flash(AtPointer(rem, 4), font).ret # NullPtr

\* 4.6 step 5: ASCII glyphs are half as wide as CJK glyphs
GlyphWidth(kind, font) == IF kind = "ascii" THEN font \div 2 ELSE font

\* 4.6 step 6: the advanced cursor exceeds the display's usable width
Wraps(x) == x > LCD_Width

NoStep == [kind |-> "none"]

\* void LCD_DisplayText(uint16_t x, uint16_t y, char *pText)
LCD_DisplayText_Begin(x, y, pText) ==
  /\ lcd.pc = "idle"
  /\ lcd' = [lcd EXCEPT !.pc = "drawing", !.text = pText, !.pos = 0,
                        !.x = x, !.y = y, !.n = 0, !.last = NoStep]

\* 4.6 steps 2 to 7 for the character at the cursor
LCD_DisplayText_Char ==
  /\ lcd.pc = "drawing"
  /\ lcd.pos < Len(lcd.text)
  /\ LET rem == SubSeq(lcd.text, lcd.pos + 1, Len(lcd.text))
         newline == rem[1] = 10
         c == Classify(rem, lcd.legacy)
     IN \E found \in {~newline /\ Resolves(rem, c.kind, lcd.font)} :
       LET adv == IF newline \/ (~found /\ ~lcd.advanceOnMiss) THEN 0
                  ELSE GlyphWidth(c.kind, lcd.font)
           nx == ToUint16(lcd.x + adv)
           wrap == newline \/ Wraps(nx)
           npos == lcd.pos + c.consumed
       IN lcd' = [lcd EXCEPT
                  !.pos = IF npos > Len(lcd.text) THEN Len(lcd.text) ELSE npos,
                  !.x = IF wrap THEN LeftMargin ELSE nx,
                  !.y = IF wrap THEN ToUint16(lcd.y + lcd.font) ELSE lcd.y,
                  !.n = @ + 1,
                  !.last = [kind |-> IF newline THEN "newline" ELSE c.kind,
                            consumed |-> c.consumed, found |-> found, adv |-> adv,
                            x0 |-> lcd.x, y0 |-> lcd.y, pos0 |-> lcd.pos,
                            at |-> IF found THEN <<lcd.x, lcd.y>> ELSE <<>>]]

\* 4.6 step 1: the remaining input is empty
LCD_DisplayText_End ==
  /\ lcd.pc = "drawing"
  /\ lcd.pos >= Len(lcd.text)
  /\ lcd' = [lcd EXCEPT !.pc = "done"]

\* the call returns; its parameters and locals are gone
LCD_DisplayText_Return ==
  /\ lcd.pc = "done"
  /\ lcd' = [lcd EXCEPT !.pc = "idle", !.text = <<>>, !.pos = 0, !.x = 0, !.y = 0,
                        !.n = 0, !.last = NoStep]

\* void LCD_SetTextFont(uint8_t font_size)
LCD_SetTextFont(font_size) ==
  /\ lcd.pc = "idle"
  /\ lcd.font # font_size
  /\ lcd' = [lcd EXCEPT !.font = font_size]

\* longest text drawn
MaxTextLen == 4

\* newline, "A", and the bytes of "你" in UTF-8, in any order
LcdBytes == {10, 65, 228, 189, 160}

LcdTexts == UNION {[1..n -> LcdBytes] : n \in 0..MaxTextLen}

LcdStartX == {216}

LcdFonts == {12, 24}

\* the engine after SPI_LCD_Init, in one build (legacy or UTF-8 dispatch, an
\* unresolved glyph advancing the cursor or not)
LcdReady(legacy, advanceOnMiss) ==
  [pc |-> "idle", font |-> DefaultFont, legacy |-> legacy,
   advanceOnMiss |-> advanceOnMiss,
   text |-> <<>>, pos |-> 0, x |-> 0, y |-> 0, n |-> 0, last |-> NoStep]

\* the blob is flashed or erased, and FlashFont_Init has run on it
InitLcd ==
  /\ flagMagic \in {FLAG_MAGIC, <<65535, 65535>>}
  /\ gbTable = GBFixture
  /\ utf8Table = U8Fixture
  /\ charSigned = FALSE
  /\ g_font_initialized = (IF flagMagic = FLAG_MAGIC THEN 1 ELSE 0)
  /\ everOk = (flagMagic = FLAG_MAGIC)
  /\ everFailed = (flagMagic # FLAG_MAGIC)
  /\ call = NoCall
  /\ CtxAtRest /\ boot = Off /\ key = Off /\ qspi = Off
  /\ \E legacy \in BOOLEAN, advanceOnMiss \in BOOLEAN : lcd = LcdReady(legacy, advanceOnMiss)

NextLcd ==
  \/ lcd.pc = "idle" /\ UNCHANGED nonLcd
       /\ \E x \in LcdStartX, t \in LcdTexts : LCD_DisplayText_Begin(x, 0, t)
  \/ LCD_DisplayText_Char /\ UNCHANGED nonLcd
  \/ LCD_DisplayText_End /\ UNCHANGED nonLcd
  \/ LCD_DisplayText_Return /\ UNCHANGED nonLcd
  \/ (\E s \in LcdFonts : LCD_SetTextFont(s)) /\ UNCHANGED nonLcd

SpecLcd == InitLcd /\ [][NextLcd]_vars

-----------------------------------------------------------------------------
(* init_all (init.c) in the build that has the SPI display, the QSPI flash  *)
(* and the flash font enabled.  The calls are made in the order of the      *)
(* source; none of their return values is looked at.                        *)

QSPI_W25Qxx_OK == 0

W25Qxx_ERROR_INIT == 0 - 1

W25Qxx_ERROR_MemoryMapped == 0 - 6

BootCall(fn, x, y, size) == [fn |-> fn, x |-> x, y |-> y, size |-> size]

\* init_all with FlashFont_Init moved behind the first text
InitAllCalls_FontInitLate ==
  <<BootCall("SPI_LCD_Init", 0, 0, 0),
    BootCall("QSPI_W25Qxx_Init", 0, 0, 0),
    BootCall("QSPI_W25Qxx_MemoryMappedMode", 0, 0, 0),
    BootCall("LCD_DisplayText", 0, 0, 0),
    BootCall("FlashFont_Init", 0, 0, 0),
    BootCall("LCD_SetTextFont", 0, 0, 12),
    BootCall("LCD_DisplayText", 0, 48, 0)>>

\* the calls of init_all, lines 70 to 119
InitAllCalls ==
  <<BootCall("SPI_LCD_Init", 0, 0, 0),
    BootCall("QSPI_W25Qxx_Init", 0, 0, 0),
    BootCall("QSPI_W25Qxx_MemoryMappedMode", 0, 0, 0),
    BootCall("FlashFont_Init", 0, 0, 0),
    BootCall("LCD_DisplayText", 0, 0, 0),
    BootCall("LCD_SetTextFont", 0, 0, 12),
    BootCall("LCD_DisplayText", 0, 48, 0)>>

\* the string init_all draws, in the source file's UTF-8
BootText ==
  <<232, 191, 153, 230, 152, 175, 228, 184, 128, 228, 184, 170, 230, 181, 139,
    232, 175, 149, 239, 188, 140, 229, 147, 136, 229, 159, 186, 231, 177, 179,
    229, 141, 151, 229, 140, 151, 231, 187, 191, 232, 177, 134, 239, 188, 140,
    115, 116, 109, 51, 50, 126>>

\* init_all is at a call of fn, and the call before it has returned
BootAt(fn) ==
  /\ boot.pc <= Len(InitAllCalls)
  /\ InitAllCalls[boot.pc].fn = fn
  /\ lcd.pc = "idle"

\* the call is made: init_all moves on to its next statement
BootCalled(fn) == [boot EXCEPT !.pc = @ + 1, !.log = Append(@, fn)]

Boot_SPI_LCD_Init ==
  /\ BootAt("SPI_LCD_Init")
  /\ boot' = BootCalled("SPI_LCD_Init")
  /\ UNCHANGED <<fontVars, lcd, nonBoot>>

\* the device answers with its JEDEC ID or does not
Boot_QSPI_W25Qxx_Init ==
  /\ BootAt("QSPI_W25Qxx_Init")
  /\ \E r \in {QSPI_W25Qxx_OK, W25Qxx_ERROR_INIT} :
       boot' = [BootCalled("QSPI_W25Qxx_Init") EXCEPT !.qspiInit = r]
  /\ UNCHANGED <<fontVars, lcd, nonBoot>>

\* HAL_QSPI_MemoryMapped returns HAL_OK or does not
Boot_QSPI_W25Qxx_MemoryMappedMode ==
  /\ BootAt("QSPI_W25Qxx_MemoryMappedMode")
  /\ \E r \in {QSPI_W25Qxx_OK, W25Qxx_ERROR_MemoryMapped} :
       boot' = [BootCalled("QSPI_W25Qxx_MemoryMappedMode") EXCEPT !.memoryMapped = r]
  /\ UNCHANGED <<fontVars, lcd, nonBoot>>

Boot_FlashFont_Init ==
  /\ BootAt("FlashFont_Init")
  /\ boot' = BootCalled("FlashFont_Init")
  /\ LET r == FlashFont_Init
     IN /\ g_font_initialized' = r.g
        /\ everOk' = (everOk \/ r.ret = 0)
        /\ everFailed' = (everFailed \/ r.ret < 0)
  /\ UNCHANGED <<flash, call, lcd, nonBoot>>

Boot_LCD_DisplayText ==
  /\ BootAt("LCD_DisplayText")
  /\ boot' = BootCalled("LCD_DisplayText")
  /\ LCD_DisplayText_Begin(InitAllCalls[boot.pc].x, InitAllCalls[boot.pc].y, BootText)
  /\ UNCHANGED <<fontVars, nonBoot>>

Boot_LCD_SetTextFont ==
  /\ BootAt("LCD_SetTextFont")
  /\ boot' = BootCalled("LCD_SetTextFont")
  /\ LCD_SetTextFont(InitAllCalls[boot.pc].size)
  /\ UNCHANGED <<fontVars, nonBoot>>

InitBoot ==
  /\ flagMagic \in Magics
  /\ gbTable = GBFixture
  /\ utf8Table = U8Fixture
  /\ charSigned = FALSE
  /\ g_font_initialized = 0
  /\ everOk = FALSE
  /\ everFailed = FALSE
  /\ call = NoCall
  /\ CtxAtRest /\ key = Off /\ qspi = Off
  /\ \E advanceOnMiss \in BOOLEAN : lcd = LcdReady(FALSE, advanceOnMiss)
  /\ boot = [pc |-> 1, log |-> <<>>, qspiInit |-> "none", memoryMapped |-> "none"]

NextBoot ==
  \/ Boot_SPI_LCD_Init
  \/ Boot_QSPI_W25Qxx_Init
  \/ Boot_QSPI_W25Qxx_MemoryMappedMode
  \/ Boot_FlashFont_Init
  \/ Boot_LCD_DisplayText
  \/ Boot_LCD_SetTextFont
  \/ LCD_DisplayText_Char /\ UNCHANGED nonLcd
  \/ LCD_DisplayText_End /\ UNCHANGED nonLcd
  \/ LCD_DisplayText_Return /\ UNCHANGED nonLcd

SpecBoot == InitBoot /\ [][NextBoot]_vars

-----------------------------------------------------------------------------
(* The key driver's event dispatch (BSP/GPIO/key.c): the callback table,    *)
(* the two functions that change it besides KEY_Init, and emit_event, which *)
(* KEY_Task calls for every event it recognises.  A function pointer is a   *)
(* one-element tuple holding the function's name; NULL is the empty one.    *)
(* key.log keeps the calls made and, for an event, the handlers entered.    *)

KEY_COUNT == 1

KeyIds == 0..(KEY_COUNT - 1)

KEY_Events == {"KEY_EV_PRESS", "KEY_EV_RELEASE", "KEY_EV_CLICK",
               "KEY_EV_DOUBLE_CLICK", "KEY_EV_LONG_PRESS"}

KEY_EventHandler == <<"KEY_EventHandler">>

NoCallbacks == [i \in KeyIds |-> NULL]

KeyEntry(op, id, cb, ev, invoked) ==
  [op |-> op, id |-> id, cb |-> cb, ev |-> ev, invoked |-> invoked]

KeyCalled(callbacks, entry) ==
  [key EXCEPT !.before = key.callbacks, !.callbacks = callbacks,
              !.log = Append(key.log, entry)]

emit_event_Both(id, ev) ==
  LET invoked == IF id >= KEY_COUNT THEN <<>>
                 ELSE IF key.callbacks[id] # NULL
                      THEN <<key.callbacks[id], KEY_EventHandler>>
                      ELSE <<KEY_EventHandler>>
  IN  key' = KeyCalled(key.callbacks, KeyEntry("emit_event", id, NULL, ev, invoked))

emit_event(id, ev) ==
  LET invoked == IF id >= KEY_COUNT THEN <<>>
                 ELSE IF key.callbacks[id] # NULL
                      THEN <<key.callbacks[id]>>
                      ELSE <<KEY_EventHandler>>
  IN  key' = KeyCalled(key.callbacks, KeyEntry("emit_event", id, NULL, ev, invoked))

KEY_Init ==
  key' = KeyCalled(NoCallbacks, KeyEntry("KEY_Init", 0, NULL, "none", <<>>))

KEY_RegisterCallback(id, cb) ==
  LET callbacks == IF id >= KEY_COUNT THEN key.callbacks
                   ELSE [key.callbacks EXCEPT ![id] = cb]
  IN  key' = KeyCalled(callbacks, KeyEntry("KEY_RegisterCallback", id, cb, "none", <<>>))

KEY_UnregisterCallback(id) ==
  LET callbacks == IF id >= KEY_COUNT THEN key.callbacks
                   ELSE [key.callbacks EXCEPT ![id] = NULL]
  IN  key' = KeyCalled(callbacks, KeyEntry("KEY_UnregisterCallback", id, NULL, "none", <<>>))

MaxKeyLog == 4

KeyIdArgs == 0..KEY_COUNT

KeyCallbackArgs == {NULL, <<"on_key_a">>, <<"on_key_b">>}

KeyEventArgs == {"KEY_EV_PRESS", "KEY_EV_CLICK"}

InitKey ==
  /\ flagMagic = FLAG_MAGIC
  /\ gbTable = GBFixture
  /\ utf8Table = U8Fixture
  /\ charSigned = FALSE
  /\ g_font_initialized = 0
  /\ everOk = FALSE
  /\ everFailed = FALSE
  /\ call = NoCall
  /\ CtxAtRest /\ lcd = Off /\ boot = Off /\ qspi = Off
  /\ key = [pc |-> "on", callbacks |-> NoCallbacks, before |-> NoCallbacks, log |-> <<>>]

NextKey ==
  \/ Len(key.log) < MaxKeyLog /\ KEY_Init /\ UNCHANGED nonKey
  \/ Len(key.log) < MaxKeyLog /\ UNCHANGED nonKey
       /\ \E id \in KeyIdArgs, cb \in KeyCallbackArgs : KEY_RegisterCallback(id, cb)
  \/ Len(key.log) < MaxKeyLog /\ UNCHANGED nonKey
       /\ \E id \in KeyIdArgs : KEY_UnregisterCallback(id)
  \/ Len(key.log) < MaxKeyLog /\ UNCHANGED nonKey
       /\ \E id \in KeyIdArgs, ev \in KeyEventArgs : emit_event(id, ev)

SpecKey == InitKey /\ [][NextKey]_vars

-----------------------------------------------------------------------------
(* QSPI_W25Qxx_WriteBuffer (qspi_flash.c) and the functions it calls.  The  *)
(* HAL calls of one loop iteration are numbered in the order the code makes *)
(* them: 1, 2 the command and the poll of QSPI_W25Qxx_WriteEnable; 3, 4 the *)
(* same inside QSPI_W25Qxx_WritePage; 5 the program command; 6 the data     *)
(* transfer; 7 the busy poll of QSPI_W25Qxx_WritePage; 8 the busy poll of   *)
(* QSPI_W25Qxx_WriteBuffer.  An iteration is given the number f of the HAL  *)
(* call that fails in it, 0 when none does; no call is made after a failed  *)
(* one, so nothing else about the HAL's answers matters.  qspi.hal keeps    *)
(* the f of the last iteration.                                             *)
(*                                                                          *)
(* The STM32 HAL is not among the files.  What is used of it: the QSPI      *)
(* controller is in indirect mode or in memory-mapped mode; HAL_QSPI_Abort  *)
(* leaves memory-mapped mode unless it fails; HAL_QSPI_MemoryMapped enters  *)
(* it; every other HAL call returns HAL_BUSY, and sends nothing, while the  *)
(* controller is in memory-mapped mode.                                     *)

W25Qxx_ERROR_WriteEnable == 0 - 2

W25Qxx_ERROR_AUTOPOLLING == 0 - 3

W25Qxx_ERROR_Erase == 0 - 4

W25Qxx_ERROR_TRANSMIT == 0 - 5

\* 0xEF4019
W25Qxx_FLASH_ID == 15679513

W25Qxx_PageSize == 256

\* uint32_t subtraction, modulo 2^32
Sub32(a, b) ==
  LET lo == a[2] - b[2]
      hi == a[1] - b[1] - (IF lo < 0 THEN 1 ELSE 0)
  IN <<hi % 65536, lo % 65536>>

\* a < b, both uint32_t
Less32(a, b) == a[1] < b[1] \/ (a[1] = b[1] /\ a[2] < b[2])

\* a % m for a uint32_t a and 0 < m <= 2^15
Mod32(a, m) == ((a[1] % m) * (65536 % m) + a[2]) % m

\* does HAL call k of the iteration return HAL_OK
HAL_OK(f, k) == f # k

QSPI_W25Qxx_AutoPollingMemReady(f, k) ==
  IF ~HAL_OK(f, k) THEN W25Qxx_ERROR_AUTOPOLLING ELSE QSPI_W25Qxx_OK

QSPI_W25Qxx_WriteEnable(f, k) ==
  IF ~HAL_OK(f, k) THEN W25Qxx_ERROR_WriteEnable
  ELSE IF ~HAL_OK(f, k + 1) THEN W25Qxx_ERROR_AUTOPOLLING
  ELSE QSPI_W25Qxx_OK

QSPI_W25Qxx_WritePage(f, k) ==
  IF QSPI_W25Qxx_WriteEnable(f, k) # QSPI_W25Qxx_OK THEN W25Qxx_ERROR_WriteEnable
  ELSE IF ~HAL_OK(f, k + 2) THEN W25Qxx_ERROR_TRANSMIT
  ELSE IF ~HAL_OK(f, k + 3) THEN W25Qxx_ERROR_TRANSMIT
  ELSE IF QSPI_W25Qxx_AutoPollingMemReady(f, k + 4) # QSPI_W25Qxx_OK
       THEN W25Qxx_ERROR_AUTOPOLLING
  ELSE QSPI_W25Qxx_OK

QSPI_W25Qxx_SectorErase(f) ==
  IF QSPI_W25Qxx_WriteEnable(f, 1) # QSPI_W25Qxx_OK THEN W25Qxx_ERROR_WriteEnable
  ELSE IF ~HAL_OK(f, 3) THEN W25Qxx_ERROR_Erase
  ELSE IF QSPI_W25Qxx_AutoPollingMemReady(f, 4) # QSPI_W25Qxx_OK
       THEN W25Qxx_ERROR_AUTOPOLLING
  ELSE QSPI_W25Qxx_OK

QSPI_W25Qxx_BlockErase_64K(f) ==
  IF QSPI_W25Qxx_WriteEnable(f, 1) # QSPI_W25Qxx_OK THEN W25Qxx_ERROR_WriteEnable
  ELSE IF ~HAL_OK(f, 3) THEN W25Qxx_ERROR_Erase
  ELSE IF QSPI_W25Qxx_AutoPollingMemReady(f, 4) # QSPI_W25Qxx_OK
       THEN W25Qxx_ERROR_AUTOPOLLING
  ELSE QSPI_W25Qxx_OK

QSPI_W25Qxx_ChipErase(f) ==
  IF QSPI_W25Qxx_WriteEnable(f, 1) # QSPI_W25Qxx_OK THEN W25Qxx_ERROR_WriteEnable
  ELSE IF ~HAL_OK(f, 3) THEN W25Qxx_ERROR_Erase
  ELSE IF ~HAL_OK(f, 4) THEN W25Qxx_ERROR_AUTOPOLLING
  ELSE QSPI_W25Qxx_OK

QSPI_W25Qxx_Reset(f) ==
  IF ~HAL_OK(f, 1) THEN W25Qxx_ERROR_INIT
  ELSE IF QSPI_W25Qxx_AutoPollingMemReady(f, 2) # QSPI_W25Qxx_OK
       THEN W25Qxx_ERROR_AUTOPOLLING
  ELSE IF ~HAL_OK(f, 3) THEN W25Qxx_ERROR_INIT
  ELSE IF QSPI_W25Qxx_AutoPollingMemReady(f, 4) # QSPI_W25Qxx_OK
       THEN W25Qxx_ERROR_AUTOPOLLING
  ELSE QSPI_W25Qxx_OK

\* id is what the device answers
QSPI_W25Qxx_ReadID(f, id) ==
  IF ~HAL_OK(f, 1) THEN 0
  ELSE IF ~HAL_OK(f, 2) THEN 0
  ELSE id

QSPI_W25Qxx_ReadBuffer(f) ==
  IF ~HAL_OK(f, 1) THEN W25Qxx_ERROR_TRANSMIT
  ELSE IF ~HAL_OK(f, 2) THEN W25Qxx_ERROR_TRANSMIT
  ELSE IF QSPI_W25Qxx_AutoPollingMemReady(f, 3) # QSPI_W25Qxx_OK
       THEN W25Qxx_ERROR_AUTOPOLLING
  ELSE QSPI_W25Qxx_OK

\* The HAL calls each function makes, in order, by the instruction sent
\* (W25Qxx_CMD_...) or the transfer made; HAL_QSPI_Abort is not among them.
WriteEnableCalls == <<"WriteEnable", "ReadStatus_REG1">>

SectorEraseCalls_NoWriteEnable == <<"SectorErase", "ReadStatus_REG1">>

SectorEraseCalls == WriteEnableCalls \o <<"SectorErase", "ReadStatus_REG1">>

BlockErase_64KCalls == WriteEnableCalls \o <<"BlockErase_64K", "ReadStatus_REG1">>

ChipEraseCalls == WriteEnableCalls \o <<"ChipErase", "ReadStatus_REG1">>

WritePageCalls ==
  WriteEnableCalls \o <<"QuadInputPageProgram", "Transmit", "ReadStatus_REG1">>

WriteBufferCalls == WriteEnableCalls \o WritePageCalls \o <<"ReadStatus_REG1">>

ResetCalls == <<"EnableReset", "ReadStatus_REG1", "ResetDevice", "ReadStatus_REG1">>

ReadIDCalls == <<"JedecID", "Receive">>

ReadBufferCalls == <<"FastReadQuad_IO", "Receive", "ReadStatus_REG1">>

\* the instructions that erase or program
EraseProgram == {"SectorErase", "BlockErase_64K", "ChipErase", "QuadInputPageProgram"}

\* QSPI_W25Qxx_WriteEnable starts with HAL_QSPI_Abort
Aborts(calls) == \E j \in DOMAIN calls : calls[j] = "WriteEnable"

HAL_QSPI_Abort(mode, ok) == IF ok THEN "indirect" ELSE mode

HAL_BUSY(mode) == mode = "mapped"

HAL_QSPI_MemoryMapped(mode, ok) == IF ~HAL_BUSY(mode) /\ ok THEN "mapped" ELSE mode

\* the first HAL call of calls that does not return HAL_OK, 0 when all do,
\* given that f is the call that fails by itself
FirstFailure(f, mode, calls) == IF HAL_BUSY(mode) /\ calls # <<>> THEN 1 ELSE f

\* the HAL calls of calls that returned HAL_OK, with the controller's mode
Sent(calls, g, mode) ==
  [j \in 1..(IF g = 0 THEN Len(calls) ELSE g - 1) |-> [cmd |-> calls[j], mode |-> mode]]

\* the page program QSPI_W25Qxx_WritePage(pBuffer, WriteAddr, NumByteToWrite)
\* sends: NumByteToWrite is a uint16_t; src is pBuffer as an offset into the
\* caller's buffer
PageWrite(pBuffer, WriteAddr, NumByteToWrite, res) ==
  [addr |-> WriteAddr, len |-> ToUint16(NumByteToWrite[2]), src |-> pBuffer, res |-> res]

\* current_size before the loop
FirstSize(WriteAddr, Size) ==
  LET current_size == Sub32(ToUint32(W25Qxx_PageSize),
                            ToUint32(Mod32(WriteAddr, W25Qxx_PageSize)))
  IN  IF Less32(Size, current_size) THEN Size ELSE current_size

\* current_size for the next iteration
NextSize(current_addr, end_addr) ==
  IF Less32(end_addr, Add32(current_addr, ToUint32(W25Qxx_PageSize)))
  THEN Sub32(end_addr, current_addr)
  ELSE ToUint32(W25Qxx_PageSize)

QspiIdle ==
  [pc |-> "idle", WriteAddr |-> NullPtr, Size |-> NullPtr, current_size |-> NullPtr,
   current_addr |-> NullPtr, end_addr |-> NullPtr, write_data |-> NullPtr,
   pages |-> <<>>, hal |-> 0, ret |-> QSPI_W25Qxx_OK,
   mode |-> "indirect", pre |-> "indirect", mmCalled |-> FALSE, fn |-> "none",
   sent |-> <<>>]

\* what a call leaves of the call before it
QspiEnter(fn) ==
  [QspiIdle EXCEPT !.mode = qspi.mode, !.pre = qspi.mode,
                   !.mmCalled = qspi.mmCalled, !.fn = fn]

\* entry, up to the do
QSPI_W25Qxx_WriteBuffer(WriteAddr, Size) ==
  /\ qspi.pc = "idle"
  /\ qspi' = [QspiEnter("QSPI_W25Qxx_WriteBuffer") EXCEPT
                              !.pc = "loop",
                              !.WriteAddr = WriteAddr,
                              !.Size = Size,
                              !.current_size = FirstSize(WriteAddr, Size),
                              !.current_addr = WriteAddr,
                              !.end_addr = Add32(WriteAddr, Size),
                              !.write_data = NullPtr]

\* the page writes of one call that are followed
MaxPages == 5

\* one pass through the body of the do ... while and its test
QSPI_W25Qxx_WriteBuffer_Loop(f, a) ==
  /\ qspi.pc = "loop"
  /\ Len(qspi.pages) < MaxPages
  /\ LET mode == IF Aborts(WriteBufferCalls) THEN HAL_QSPI_Abort(qspi.mode, a)
                 ELSE qspi.mode
         g == FirstFailure(f, mode, WriteBufferCalls)
         q == [qspi EXCEPT !.mode = mode, !.hal = g,
                           !.sent = Sent(WriteBufferCalls, g, mode)]
     IN
     IF QSPI_W25Qxx_WriteEnable(g, 1) # QSPI_W25Qxx_OK
     THEN qspi' = [q EXCEPT !.pc = "done", !.ret = W25Qxx_ERROR_WriteEnable]
     ELSE LET res == QSPI_W25Qxx_WritePage(g, 3)
              pages == Append(qspi.pages,
                              PageWrite(qspi.write_data, qspi.current_addr,
                                        qspi.current_size, res))
              current_addr == Add32(qspi.current_addr, qspi.current_size)
          IN  IF res # QSPI_W25Qxx_OK
              THEN qspi' = [q EXCEPT !.pc = "done", !.pages = pages,
                                     !.ret = W25Qxx_ERROR_TRANSMIT]
              ELSE IF QSPI_W25Qxx_AutoPollingMemReady(g, 8) # QSPI_W25Qxx_OK
              THEN qspi' = [q EXCEPT !.pc = "done", !.pages = pages,
                                     !.ret = W25Qxx_ERROR_AUTOPOLLING]
              ELSE qspi' = [q EXCEPT
                     !.pages = pages,
                     !.current_addr = current_addr,
                     !.write_data = Add32(qspi.write_data, qspi.current_size),
                     !.current_size = NextSize(current_addr, qspi.end_addr),
                     !.pc = IF Less32(current_addr, qspi.end_addr) THEN "loop" ELSE "done",
                     !.ret = QSPI_W25Qxx_OK]

QSPI_W25Qxx_WriteBuffer_Return ==
  /\ qspi.pc = "done"
  /\ qspi' = QspiEnter("none")

HalCalls == 0..8

\* 0, 1, 255; 0x01FFFE00, 0x01FFFEFF, 0x01FFFF00 at the end of the device;
\* 0xFFFFFE00, 0xFFFFFF00 at the end of the address range
WriteAddrs == {<<0, 0>>, <<0, 1>>, <<0, 255>>,
               <<511, 65024>>, <<511, 65279>>, <<511, 65280>>,
               <<65535, 65024>>, <<65535, 65280>>}

WriteSizes == {0, 1, 2, 255, 256, 257, 512, 513, 768}

InitQspi ==
  /\ flagMagic = FLAG_MAGIC
  /\ gbTable = GBFixture
  /\ utf8Table = U8Fixture
  /\ charSigned = FALSE
  /\ g_font_initialized = 0
  /\ everOk = FALSE
  /\ everFailed = FALSE
  /\ call = NoCall
  /\ CtxAtRest /\ lcd = Off /\ boot = Off /\ key = Off
  /\ \E mode \in {"indirect", "mapped"} : qspi = [QspiIdle EXCEPT !.mode = mode]

NextQspi ==
  \/ UNCHANGED nonQspi
       /\ \E a \in WriteAddrs, s \in WriteSizes : QSPI_W25Qxx_WriteBuffer(a, ToUint32(s))
  \/ UNCHANGED nonQspi
       /\ \E f \in HalCalls, a \in BOOLEAN : QSPI_W25Qxx_WriteBuffer_Loop(f, a)
  \/ QSPI_W25Qxx_WriteBuffer_Return /\ UNCHANGED nonQspi

SpecQspi == InitQspi /\ [][NextQspi]_vars

\* A driver function that runs to its end in one step: it makes the HAL calls
\* of calls; Ret(g) is what it returns when HAL call g is the first that
\* fails.
DriverCall(fn, calls, f, a, Ret(_)) ==
  /\ qspi.pc = "idle"
  /\ LET mode == IF Aborts(calls) THEN HAL_QSPI_Abort(qspi.mode, a) ELSE qspi.mode
         g == FirstFailure(f, mode, calls)
     IN  qspi' = [QspiEnter(fn) EXCEPT !.mode = mode, !.hal = g,
                                       !.sent = Sent(calls, g, mode),
                                       !.ret = Ret(g)]

CallQSPI_W25Qxx_SectorErase(f, a) ==
  DriverCall("QSPI_W25Qxx_SectorErase", SectorEraseCalls, f, a, QSPI_W25Qxx_SectorErase)

CallQSPI_W25Qxx_BlockErase_64K(f, a) ==
  DriverCall("QSPI_W25Qxx_BlockErase_64K", BlockErase_64KCalls, f, a,
             QSPI_W25Qxx_BlockErase_64K)

CallQSPI_W25Qxx_ChipErase(f, a) ==
  DriverCall("QSPI_W25Qxx_ChipErase", ChipEraseCalls, f, a, QSPI_W25Qxx_ChipErase)

CallQSPI_W25Qxx_WritePage(f, a) ==
  DriverCall("QSPI_W25Qxx_WritePage", WritePageCalls, f, a,
             LAMBDA g : QSPI_W25Qxx_WritePage(g, 1))

CallQSPI_W25Qxx_ReadBuffer(f) ==
  DriverCall("QSPI_W25Qxx_ReadBuffer", ReadBufferCalls, f, FALSE,
             QSPI_W25Qxx_ReadBuffer)

CallQSPI_W25Qxx_Reset(f) ==
  DriverCall("QSPI_W25Qxx_Reset", ResetCalls, f, FALSE, QSPI_W25Qxx_Reset)

\* QSPI_W25Qxx_Reset, its result dropped, then QSPI_W25Qxx_ReadID
CallQSPI_W25Qxx_Init(f1, f2, id) ==
  /\ qspi.pc = "idle"
  /\ LET g1 == FirstFailure(f1, qspi.mode, ResetCalls)
         g2 == FirstFailure(f2, qspi.mode, ReadIDCalls)
         Device_ID == QSPI_W25Qxx_ReadID(g2, id)
     IN  qspi' = [QspiEnter("QSPI_W25Qxx_Init") EXCEPT
                    !.hal = IF g1 # 0 THEN g1 ELSE IF g2 # 0 THEN 4 + g2 ELSE 0,
                    !.sent = Sent(ResetCalls, g1, qspi.mode)
                               \o Sent(ReadIDCalls, g2, qspi.mode),
                    !.ret = IF Device_ID = W25Qxx_FLASH_ID THEN QSPI_W25Qxx_OK
                            ELSE W25Qxx_ERROR_INIT]

\* QSPI_W25Qxx_Reset, its result dropped, then HAL_QSPI_MemoryMapped
CallQSPI_W25Qxx_MemoryMappedMode(f, ok) ==
  /\ qspi.pc = "idle"
  /\ LET g == FirstFailure(f, qspi.mode, ResetCalls)
         mode == HAL_QSPI_MemoryMapped(qspi.mode, ok)
     IN  qspi' = [QspiEnter("QSPI_W25Qxx_MemoryMappedMode") EXCEPT
                    !.mode = mode,
                    !.mmCalled = TRUE,
                    !.hal = IF g # 0 THEN g ELSE IF mode = qspi.mode THEN 5 ELSE 0,
                    !.sent = Sent(ResetCalls, g, qspi.mode),
                    !.ret = IF ~HAL_BUSY(qspi.mode) /\ ok THEN QSPI_W25Qxx_OK
                            ELSE W25Qxx_ERROR_MemoryMapped]

\* what the device may answer to the JEDEC ID instruction
DeviceIds == {W25Qxx_FLASH_ID, 0}

\* The driver and the font functions, called one after the other by one
\* caller, from the controller's state after its HAL initialisation.
InitDrv ==
  /\ flagMagic = FLAG_MAGIC
  /\ gbTable = GBFixture
  /\ utf8Table = U8Fixture
  /\ charSigned = FALSE
  /\ g_font_initialized = 0
  /\ everOk = FALSE
  /\ everFailed = FALSE
  /\ call = NoCall
  /\ CtxAtRest /\ lcd = Off /\ boot = Off /\ key = Off
  /\ qspi = QspiIdle

NextDrv ==
  \/ Idle /\ UNCHANGED nonQspi
       /\ \E f \in 0..Len(SectorEraseCalls), a \in BOOLEAN : CallQSPI_W25Qxx_SectorErase(f, a)
  \/ Idle /\ UNCHANGED nonQspi
       /\ \E f \in 0..Len(BlockErase_64KCalls), a \in BOOLEAN :
            CallQSPI_W25Qxx_BlockErase_64K(f, a)
  \/ Idle /\ UNCHANGED nonQspi
       /\ \E f \in 0..Len(ChipEraseCalls), a \in BOOLEAN : CallQSPI_W25Qxx_ChipErase(f, a)
  \/ Idle /\ UNCHANGED nonQspi
       /\ \E f \in 0..Len(WritePageCalls), a \in BOOLEAN : CallQSPI_W25Qxx_WritePage(f, a)
  \/ Idle /\ UNCHANGED nonQspi
       /\ \E f \in 0..Len(ReadBufferCalls) : CallQSPI_W25Qxx_ReadBuffer(f)
  \/ Idle /\ UNCHANGED nonQspi
       /\ \E f \in 0..Len(ResetCalls) : CallQSPI_W25Qxx_Reset(f)
  \/ Idle /\ UNCHANGED nonQspi
       /\ \E f1 \in 0..Len(ResetCalls), f2 \in 0..Len(ReadIDCalls), id \in DeviceIds :
            CallQSPI_W25Qxx_Init(f1, f2, id)
  \/ Idle /\ UNCHANGED nonQspi
       /\ \E f \in 0..Len(ResetCalls), ok \in BOOLEAN : CallQSPI_W25Qxx_MemoryMappedMode(f, ok)
  \/ Idle /\ NextQspi
  \/ Idle /\ qspi.pc = "idle" /\ CallFlashFont_Init
  \/ Idle /\ qspi.pc = "idle"
       /\ \E t \in CtxGBTexts, s \in CtxSizes : CallGB2312_FindFont_Flash(t, s, GBTexts)
  \/ Idle /\ qspi.pc = "idle"
       /\ \E t \in CtxU8Texts, s \in CtxSizes : CallUTF8_FindFont_Flash(t, s)
  \/ Return

SpecDrv == InitDrv /\ [][NextDrv]_vars

-----------------------------------------------------------------------------
(* KEY_Task (BSP/GPIO/key.c), called again and again after KEY_Init.  A     *)
(* call is given the tick GetTick() returns and the level KEY_ReadRaw reads *)
(* for each key.  The tick is a uint32_t that starts at key.tick0;          *)
(* key.elapsed is the time since KEY_Init.  key.events are the events the   *)
(* last call passed to emit_event.  key.pressAt, key.shortRel and key.longs *)
(* are kept beside the driver's variables: when the last KEY_EV_PRESS of a  *)
(* key was emitted, when its last two releases after a hold shorter than    *)
(* KEY_LONG_MS were, and how many KEY_EV_LONG_PRESS followed that press.    *)

KEY_DEBOUNCE_MS == 20

KEY_LONG_MS == 600

KEY_DBL_MS == 200

\* (int32_t)d >= c for a uint32_t d and 0 <= c < 2^16
SignedGe(d, c) == d[1] < 32768 /\ (d[1] > 0 \/ d[2] >= c)

KeyEvent(i, ev) == [id |-> i, ev |-> ev]

KeyEmit(k, i, ev) == [k EXCEPT !.events = Append(@, KeyEvent(i, ev))]

LongPressDue_NoFlag(k, i, now) ==
  /\ k.press_ts[i] # NullPtr
  /\ ~Less32(Sub32(now, k.press_ts[i]), ToUint32(KEY_LONG_MS))

\* !long_reported[i] && press_ts[i] && ((now - press_ts[i]) >= KEY_LONG_MS)
LongPressDue(k, i, now) ==
  /\ k.long_reported[i] = 0
  /\ k.press_ts[i] # NullPtr
  /\ ~Less32(Sub32(now, k.press_ts[i]), ToUint32(KEY_LONG_MS))

\* the release edge, after stable_state[i] = pressed
KeyReleased(k, i, now) ==
  LET k1 == KeyEmit([k EXCEPT !.release_ts[i] = now], i, "KEY_EV_RELEASE")
      held == IF k1.press_ts[i] # NullPtr THEN Sub32(now, k1.press_ts[i]) ELSE NullPtr
  IN  IF Less32(held, ToUint32(KEY_LONG_MS))
      THEN IF /\ k1.click_pending[i] # 0
              /\ ~Less32(ToUint32(KEY_DBL_MS), Sub32(now, k1.release_ts[i]))
           THEN KeyEmit([k1 EXCEPT !.click_pending[i] = 0], i, "KEY_EV_DOUBLE_CLICK")
           ELSE [k1 EXCEPT !.click_pending[i] = 1]
      ELSE [k1 EXCEPT !.click_pending[i] = 0]

\* the body of the for loop of KEY_Task, for key i
KEY_Task_Key(k, i, now, raw) ==
  LET pressed == IF raw # k.idle_level[i] THEN 1 ELSE 0
  IN  IF raw # k.last_raw[i]
      THEN [k EXCEPT !.last_change_ts[i] = now, !.last_raw[i] = raw]
      ELSE IF ~SignedGe(Sub32(now, k.last_change_ts[i]), KEY_DEBOUNCE_MS) THEN k
      ELSE IF pressed # k.stable_state[i]
      THEN IF pressed # 0
           THEN KeyEmit([k EXCEPT !.stable_state[i] = pressed,
                                  !.press_ts[i] = now,
                                  !.long_reported[i] = 0], i, "KEY_EV_PRESS")
           ELSE KeyReleased([k EXCEPT !.stable_state[i] = pressed], i, now)
      ELSE IF k.stable_state[i] # 0
      THEN IF LongPressDue(k, i, now)
           THEN KeyEmit([k EXCEPT !.long_reported[i] = 1], i, "KEY_EV_LONG_PRESS")
           ELSE k
      ELSE IF /\ k.click_pending[i] # 0
              /\ Less32(ToUint32(KEY_DBL_MS), Sub32(now, k.release_ts[i]))
           THEN KeyEmit([k EXCEPT !.click_pending[i] = 0], i, "KEY_EV_CLICK")
           ELSE k

\* for (int i = 0; i < KEY_COUNT; ++i), from key i on
RECURSIVE KEY_Task_From(_, _, _, _)
KEY_Task_From(k, i, now, raws) ==
  IF i >= KEY_COUNT THEN k
  ELSE KEY_Task_From(KEY_Task_Key(k, i, now, raws[i]), i + 1, now, raws)

KeyEmitted(k, i, ev) == \E j \in DOMAIN k.events : k.events[j] = KeyEvent(i, ev)

\* the record of what was emitted, brought up to date after a call at time t
KeyNoted(k, t) ==
  LET press(i) == KeyEmitted(k, i, "KEY_EV_PRESS")
      short(i) == /\ KeyEmitted(k, i, "KEY_EV_RELEASE")
                  /\ t - k.pressAt[i] < KEY_LONG_MS
      long(i) == KeyEmitted(k, i, "KEY_EV_LONG_PRESS")
  IN  [k EXCEPT
         !.pressAt = [i \in KeyIds |-> IF press(i) THEN t ELSE @[i]],
         !.longs = [i \in KeyIds |-> IF press(i) THEN 0
                                     ELSE IF long(i) THEN @[i] + 1 ELSE @[i]],
         !.shortRel = [i \in KeyIds |->
                         IF short(i)
                         THEN (IF @[i] = <<>> THEN <<>> ELSE <<@[i][Len(@[i])]>>) \o <<t>>
                         ELSE @[i]]]

\* the longest time after KEY_Init that is followed
MaxElapsed == 700

KEY_Task(d, raws) ==
  /\ key.pc = "task"
  /\ key.elapsed + d <= MaxElapsed
  /\ LET t == key.elapsed + d
         now == Add32(key.tick0, ToUint32(t))
         k == KEY_Task_From([key EXCEPT !.elapsed = t, !.events = <<>>], 0, now, raws)
     IN  key' = KeyNoted(k, t)

\* the times between two calls: the 20 ms of the suggested period, and 200 ms
TickSteps == {20, 200}

\* GetTick() at KEY_Init: 0, and 40 ms before the tick wraps
StartTicks == {<<0, 0>>, <<65535, 65496>>}

Levels == {0, 1}

\* KEY_Init has run: idle_level and last_raw are the level read then
KeyStarted(tick0, level) ==
  [pc |-> "task", tick0 |-> tick0, elapsed |-> 0,
   idle_level |-> [i \in KeyIds |-> level],
   last_raw |-> [i \in KeyIds |-> level],
   stable_state |-> [i \in KeyIds |-> 0],
   last_change_ts |-> [i \in KeyIds |-> tick0],
   press_ts |-> [i \in KeyIds |-> NullPtr],
   release_ts |-> [i \in KeyIds |-> NullPtr],
   click_pending |-> [i \in KeyIds |-> 0],
   long_reported |-> [i \in KeyIds |-> 0],
   events |-> <<>>,
   pressAt |-> [i \in KeyIds |-> 0 - 1],
   longs |-> [i \in KeyIds |-> 0],
   shortRel |-> [i \in KeyIds |-> <<>>]]

InitKeyTask ==
  /\ flagMagic = FLAG_MAGIC
  /\ gbTable = GBFixture
  /\ utf8Table = U8Fixture
  /\ charSigned = FALSE
  /\ g_font_initialized = 0
  /\ everOk = FALSE
  /\ everFailed = FALSE
  /\ call = NoCall
  /\ CtxAtRest /\ lcd = Off /\ boot = Off /\ qspi = Off
  /\ \E tick0 \in StartTicks, level \in Levels : key = KeyStarted(tick0, level)

NextKeyTask ==
  /\ UNCHANGED nonKey
  /\ \E d \in TickSteps, raws \in [KeyIds -> Levels] : KEY_Task(d, raws)

SpecKeyTask == InitKeyTask /\ [][NextKeyTask]_vars

-----------------------------------------------------------------------------
(* Claims                                                                   *)

\* the least i < n with P(i), or -1
FirstAt(P(_), n) ==
  IF \E i \in 0..(n - 1) : P(i)
  THEN CHOOSE i \in 0..(n - 1) : P(i) /\ \A j \in 0..(i - 1) : ~P(j)
  ELSE -1

\* a 16-bit field read as a signed 16-bit value
AsSigned16(v) == IF v < 32768 THEN v ELSE v - 65536

\* the big-endian key of two text bytes
BigEndianKey(bytes) == 256 * bytes[1] + bytes[2]

\* where the populated part of the legacy table ends: the first record with
\* gbk_code 0xFFFF, or position 7464
LegacyEnd ==
  LET IsSentinel(i) == GBEntry(i).gbk_code = 65535
      p == FirstAt(IsSentinel, MaxEntries)
  IN IF p = -1 THEN MaxEntries ELSE p

\* the position of the record for key k in the populated part, or -1
LegacyPos(k) ==
  LET HasKey(i) == GBEntry(i).gbk_code = k
  IN FirstAt(HasKey, LegacyEnd)

\* the position of the UTF-8 table's record of length n whose first n bytes
\* are those of text, or -1
Utf8Pos(text, n) ==
  LET Same(i) == /\ U8Entry(i).utf8_len = n
                 /\ SubSeq(U8Entry(i).utf8, 1, n) = SubSeq(text, 1, n)
  IN FirstAt(Same, MaxEntries)

GBIndexCall == call.op = "GB2312_FindIndex_Flash" /\ everOk /\ call.text # NULL

U8IndexCall ==
  call.op = "UTF8_FindIndex_Flash" /\ everOk /\ call.text # NULL /\ call.len \in 1..4

\* C1 as stated: after a successful FlashFont_Init, GB2312_FindIndex_Flash
\* returns the index field of the record whose gbk_code equals the key when
\* that record lies before the first 0xFFFF record and before position 7464,
\* and -1 otherwise.
C1_ReturnsIndexField ==
  GBIndexCall =>
    LET p == LegacyPos(BigEndianKey(call.bytes))
    IN call.ret = (IF p = -1 THEN -1 ELSE GBEntry(p).index)

\* C1, amended: the value returned is that record's index field converted to
\* int16_t (the field itself below 0x8000, the field minus 65536 from 0x8000
\* on), and -1 when no such record lies in the populated part.
C1_ReturnsIndexAsInt16 ==
  GBIndexCall =>
    LET p == LegacyPos(BigEndianKey(call.bytes))
    IN call.ret = (IF p = -1 THEN -1 ELSE AsSigned16(GBEntry(p).index))

\* C1 witness: the key's record sits at the last scanned position, 7463, and
\* its index is returned after all 7464 records were read
C1_Witness ==
  /\ GBIndexCall
  /\ LegacyPos(BigEndianKey(call.bytes)) = MaxEntries - 1
  /\ call.ret = 5
  /\ call.reads = MaxEntries

\* C2 as stated: after a successful FlashFont_Init, for a key of length L in
\* 1..4 UTF8_FindIndex_Flash returns the recorded index of a record whose
\* utf8_len is L and whose first L bytes are the key's, never that of a
\* record that differs in length or in one of those bytes, and -1 when no
\* record matches.
C2_ReturnsRecordedIndex ==
  U8IndexCall =>
    LET p == Utf8Pos(call.text, call.len)
    IN call.ret = (IF p = -1 THEN -1 ELSE U8Entry(p).index)

\* C2, amended: the value returned is the matching record's index field
\* converted to int16_t, and -1 when no record matches.
C2_ReturnsRecordedIndexAsInt16 ==
  U8IndexCall =>
    LET p == Utf8Pos(call.text, call.len)
    IN call.ret = (IF p = -1 THEN -1 ELSE AsSigned16(U8Entry(p).index))

\* C2 witness: the first record has the key's length and two of its three
\* bytes, the second record is the key's and its index is returned
C2_Witness ==
  /\ U8IndexCall
  /\ call.len = 3
  /\ U8Entry(0).utf8_len = 3
  /\ U8Entry(0).utf8 # call.text
  /\ Utf8Pos(call.text, call.len) = 1
  /\ call.ret = U8Entry(1).index
  /\ call.reads = 2

\* the offset of an address from 0x90000000, the start of the mapped window
WindowOffset(addr) == (addr[1] - 36864) * 65536 + addr[2]

FontCall == call.op \in {"GB2312_FindFont_Flash", "UTF8_FindFont_Flash"}

LookupCall ==
  call.op \in {"GB2312_FindIndex_Flash", "GB2312_FindFont_Flash",
               "UTF8_FindIndex_Flash", "UTF8_FindFont_Flash"}

\* C3: for a glyph index i >= 0 returned by the lookup and a font size s of
\* {12,16,20,24,32}, GB2312_FindFont_Flash and UTF8_FindFont_Flash return
\* 0x90000000 + base(s) + 18 + i * bytes_per_glyph(s), and the address of
\* index i + 1 at that size lies exactly bytes_per_glyph(s) after it.
C3_AddressLinear ==
  (FontCall /\ call.index >= 0 /\ call.size \in FontSizes) =>
    LET i == call.index
        s == call.size
        stride == FlashFont_BytesPerChar(s)
        next == IF call.op = "GB2312_FindFont_Flash"
                THEN GB2312_GlyphAddr(i + 1, s)
                ELSE UTF8_GlyphAddr(i + 1, s)
    IN /\ call.ret[1] >= 36864
       /\ WindowOffset(call.ret) = GetFontBaseAddr(s) + 18 + i * stride
       /\ next[1] >= 36864
       /\ WindowOffset(next) - WindowOffset(call.ret) = stride

\* C3 witness: glyph 5 of the 20x20 font, found through the UTF-8 table
C3_Witness ==
  /\ call.op = "UTF8_FindFont_Flash"
  /\ call.index = 5
  /\ call.size = 20
  /\ WindowOffset(call.ret) = 30408704 + 418048 + 18 + 5 * 60

\* C4: while no FlashFont_Init call has succeeded, every index lookup returns
\* -1 and every font lookup returns NULL, and no table record is read.
C4_FailFastBeforeInit ==
  (LookupCall /\ ~everOk) =>
    /\ call.ret = (IF FontCall THEN NullPtr ELSE -1)
    /\ call.reads = 0

\* C4 witness: FlashFont_Init has failed, and a font lookup of a character
\* whose record is the table's first returned NULL
C4_Witness ==
  /\ call.op = "GB2312_FindFont_Flash"
  /\ everFailed
  /\ ~everOk
  /\ call.text # NULL
  /\ GBEntry(0).gbk_code = BigEndianKey(call.text)
  /\ call.size \in FontSizes
  /\ call.ret = NullPtr

\* C5: FlashFont_Init returns 0 and sets the ready flag exactly when the flag
\* record's magic is 0x464C4147; for any other magic it returns a negative
\* value and leaves the flag as it was.
C5_InitIffMagic ==
  call.op = "FlashFont_Init" =>
    IF flagMagic = <<17996, 16711>>
    THEN call.ret = 0 /\ g_font_initialized = 1
    ELSE call.ret < 0 /\ g_font_initialized = call.gPre /\ g_font_initialized = 0

\* C5 witness: the magic of an erased flash, FlashFont_Init returned -1
C5_Witness ==
  /\ call.op = "FlashFont_Init"
  /\ flagMagic = <<65535, 65535>>
  /\ call.ret = -1
  /\ g_font_initialized = 0

\* C6: the length GetUTF8CharLen computes for UTF8_FindFont_Flash from the
\* leading byte b is 1 for 0xxxxxxx, 2 for 110xxxxx, 3 for 1110xxxx, 4 for
\* 11110xxx and 1 for every other byte (10xxxxxx, 11111xxx); it is never 0
\* and never more than 4 for a non-NULL text.
C6_Utf8LenByLeadByte ==
  (call.op = "UTF8_FindFont_Flash" /\ call.text # NULL) =>
    LET b == call.text[1]
    IN /\ call.len \in 1..4
       /\ call.len = (IF b \in 0..127 THEN 1
                      ELSE IF b \in 192..223 THEN 2
                      ELSE IF b \in 224..239 THEN 3
                      ELSE IF b \in 240..247 THEN 4
                      ELSE 1)

\* C6 witness: the leading byte 0xF8 (11111000) was taken as one byte
C6_Witness ==
  /\ call.op = "UTF8_FindFont_Flash"
  /\ call.text # NULL
  /\ call.text[1] = 248
  /\ call.len = 1

\* C7: for input bytes b0, b1 the search key GB2312_FindIndex_Flash builds is
\* 256 * b0 + b1, whether plain char is signed or unsigned.
C7_KeyBigEndian ==
  (call.op = "GB2312_FindIndex_Flash" /\ g_font_initialized = 1 /\ call.text # NULL) =>
    call.key = 256 * call.text[1] + call.text[2]

\* C7 witness: with a signed plain char the bytes 0xC4 0xE3 gave the key 0xC4E3
C7_Witness ==
  /\ call.op = "GB2312_FindIndex_Flash"
  /\ g_font_initialized = 1
  /\ charSigned
  /\ call.text = <<196, 227>>
  /\ call.key = 50403

\* C9: FlashFont_BytesPerChar returns 24, 32, 60, 72, 128 for the sizes 12,
\* 16, 20, 24, 32, which is s rows of ceil(s / 8) bytes, and a negative value
\* for every other size in 0..255.
C9_BytesPerChar ==
  call.op = "FlashFont_BytesPerChar" =>
    LET s == call.size
    IN IF s \in {12, 16, 20, 24, 32}
       THEN /\ call.ret = s * ((s + 7) \div 8)
            /\ call.ret = (12 :> 24 @@ 16 :> 32 @@ 20 :> 60 @@ 24 :> 72 @@ 32 :> 128)[s]
       ELSE call.ret < 0

\* C9 witness: 60 bytes for the 20x20 font, three bytes for each of 20 rows
C9_Witness ==
  /\ call.op = "FlashFont_BytesPerChar"
  /\ call.size = 20
  /\ call.ret = 60

\* C8: when the legacy table's record of a character and the UTF-8 table's
\* record of a character carry the same glyph index, GB2312_FindIndex_Flash
\* and UTF8_FindIndex_Flash return the same index and GB2312_FindFont_Flash
\* and UTF8_FindFont_Flash the same address, at every size of {12,16,20,24,32}.
C8_SameGlyphBothEncodings ==
  (call.op = "UTF8_FindFont_Flash" /\ everOk /\ call.text # NULL
     /\ call.size \in FontSizes) =>
    LET up == Utf8Pos(call.text, call.len)
    IN up # -1 =>
         \A t \in GBTexts :
           LET gp == LegacyPos(BigEndianKey(t))
           IN (gp # -1 /\ GBEntry(gp).index = U8Entry(up).index) =>
                /\ GB2312_FindIndex_Flash(t).ret = call.index
                /\ GB2312_FindIndex_Flash(t).ret
                     = UTF8_FindIndex_Flash(call.text, call.len).ret
                /\ GB2312_FindFont_Flash(t, call.size).ret = call.ret

\* C8 witness: "你" has glyph index 5 in both tables, and the 24x24 address
\* found from its UTF-8 bytes is the one found from its GBK bytes
C8_Witness ==
  /\ call.op = "UTF8_FindFont_Flash"
  /\ everOk
  /\ call.text = <<228, 189, 160, 0>>
  /\ call.size = 24
  /\ call.index = 5
  /\ LegacyPos(50403) # -1
  /\ GBEntry(LegacyPos(50403)).index = 5
  /\ call.ret # NullPtr
  /\ GB2312_FindFont_Flash(<<196, 227>>, 24).ret = call.ret

\* C10 as stated: every non-NULL address GB2312_FindFont_Flash or
\* UTF8_FindFont_Flash returns, with the glyph's bytes_per_glyph length, lies
\* inside the mapped window [0x90000000, 0x90000000 + 0x2000000).
C10_GlyphInsideWindow ==
  (FontCall /\ everOk /\ call.text # NULL /\ call.size \in FontSizes
     /\ call.ret # NullPtr) =>
    /\ call.ret[1] >= 36864
    /\ WindowOffset(call.ret) + FlashFont_BytesPerChar(call.size) <= W25Qxx_FlashSize

\* C11: for a font size outside {12,16,20,24,32} GB2312_FindFont_Flash and
\* UTF8_FindFont_Flash return NULL, whether the character is in the table or
\* not: no other size's region and no default address stands in.
C11_UnknownSizeIsNull ==
  (FontCall /\ call.size \notin {12, 16, 20, 24, 32}) => call.ret = NullPtr

\* C11 witness: "你" was found in the legacy table (glyph 5) and asked for at
\* size 14, and NULL came back
C11_Witness ==
  /\ call.op = "GB2312_FindFont_Flash"
  /\ call.text = <<196, 227>>
  /\ call.index = 5
  /\ call.size = 14
  /\ call.ret = NullPtr

\* C12 as stated: when GB2312_FindFont_Flash or UTF8_FindFont_Flash is called
\* with a size outside {12,16,20,24,32}, no encoding-table record has been
\* read when the size is rejected.
C12_NoReadBeforeSizeRejected ==
  (FontCall /\ call.text # NULL /\ call.size \notin FontSizes) => call.reads = 0

\* a record whose key starts with the bytes 0xFF 0xFF: the sentinel key, and
\* what erased flash reads as
U8Sentinel(i) == U8Entry(i).utf8[1] = 255 /\ U8Entry(i).utf8[2] = 255

\* where the populated part of the UTF-8 table ends
Utf8End ==
  LET p == FirstAt(U8Sentinel, MaxEntries)
  IN IF p = -1 THEN MaxEntries ELSE p

\* C13 as stated: UTF8_FindIndex_Flash stops at the first sentinel record, so
\* it returns the index of a matching record only when that record lies before
\* the sentinel, and not found otherwise.
C13_Utf8ScanStopsAtSentinel ==
  U8IndexCall =>
    LET Same(i) == /\ U8Entry(i).utf8_len = call.len
                   /\ SubSeq(U8Entry(i).utf8, 1, call.len) = SubSeq(call.text, 1, call.len)
        p == FirstAt(Same, Utf8End)
    IN call.ret = (IF p = -1 THEN -1 ELSE AsSigned16(U8Entry(p).index))

RunAlone(f) ==
  CASE f.fn = "FlashFont_BytesPerChar" -> FlashFont_BytesPerChar(f.size)
    [] f.fn = "GB2312_FindIndex_Flash" -> GB2312_FindIndex_Flash(f.text).ret
    [] f.fn = "GB2312_FindFont_Flash" -> GB2312_FindFont_Flash(f.text, f.size).ret
    [] f.fn = "UTF8_FindIndex_Flash" -> UTF8_FindIndex_Flash(f.text, f.len).ret
    [] f.fn = "UTF8_FindFont_Flash" -> UTF8_FindFont_Flash(f.text, f.size).ret

\* C15: lookups and FlashFont_BytesPerChar started from several execution
\* contexts, their steps interleaved in any order, each return what the same
\* call returns when it runs alone; the flag they read is the one
\* FlashFont_Init left.
C15_InterleavedAsAlone ==
  \A c \in Contexts : ctx[c].pc = "done" => ctx[c].ret = RunAlone(ctx[c])

\* C15 witness: the handler's lookup of "好" returned glyph 6 while the main
\* loop was in the middle of a scan for another character
C15_Witness ==
  /\ ctx["irq"].pc = "done"
  /\ ctx["irq"].fn = "GB2312_FindIndex_Flash"
  /\ ctx["irq"].text = <<186, 195>>
  /\ ctx["irq"].ret = 6
  /\ ctx["main"].pc = "scan"
  /\ ctx["main"].fn = "UTF8_FindIndex_Flash"
  /\ ctx["main"].i > 1

\* a step of LCD_DisplayText has just acted
LcdStepped == lcd.pc \in {"drawing", "done"} /\ lcd.last.kind # "none"

FirstCall(fn) ==
  IF \E i \in DOMAIN boot.log : boot.log[i] = fn
  THEN CHOOSE i \in DOMAIN boot.log :
         boot.log[i] = fn /\ \A j \in 1..(i - 1) : boot.log[j] # fn
  ELSE 0

CallCount(fn) == Cardinality({i \in DOMAIN boot.log : boot.log[i] = fn})

\* C18: init_all calls FlashFont_Init once; whenever LCD_DisplayText has been
\* called or a glyph has been looked up, FlashFont_Init has run before it,
\* after QSPI_W25Qxx_Init and QSPI_W25Qxx_MemoryMappedMode in that order.
C18_ValidatorGatesLookups ==
  /\ CallCount("FlashFont_Init") <= 1
  /\ boot.pc > 7 => CallCount("FlashFont_Init") = 1
  /\ (FirstCall("LCD_DisplayText") > 0 \/ lcd.pc # "idle" \/ lcd.last.kind # "none") =>
       /\ 0 < FirstCall("QSPI_W25Qxx_Init")
       /\ FirstCall("QSPI_W25Qxx_Init") < FirstCall("QSPI_W25Qxx_MemoryMappedMode")
       /\ FirstCall("QSPI_W25Qxx_MemoryMappedMode") < FirstCall("FlashFont_Init")
       /\ FirstCall("FlashFont_Init") < FirstCall("LCD_DisplayText")

\* C18 witness: the first text is being drawn, a glyph has been looked up in
\* the UTF-8 table, and FlashFont_Init ran once before that, on a flashed blob
C18_Witness ==
  /\ boot.log = <<"SPI_LCD_Init", "QSPI_W25Qxx_Init", "QSPI_W25Qxx_MemoryMappedMode",
                  "FlashFont_Init", "LCD_DisplayText">>
  /\ lcd.pc = "drawing"
  /\ lcd.last.kind = "utf8"
  /\ g_font_initialized = 1

\* the handler the calls key.log[1..n] leave in charge of key id: the callback
\* of the last KEY_RegisterCallback(id, cb) with cb not NULL, unless a
\* KEY_UnregisterCallback(id), a registration of NULL or KEY_Init came later
KeyHandlerAfter(n, id) ==
  LET about == {i \in 1..n :
                  \/ key.log[i].op = "KEY_Init"
                  \/ /\ key.log[i].op \in {"KEY_RegisterCallback", "KEY_UnregisterCallback"}
                     /\ key.log[i].id = id}
  IN  IF about = {} THEN KEY_EventHandler
      ELSE LET last == CHOOSE i \in about : \A j \in about : j <= i
           IN  IF key.log[last].op = "KEY_RegisterCallback" /\ key.log[last].cb # NULL
               THEN key.log[last].cb
               ELSE KEY_EventHandler

\* C19: every event emitted for a key id < KEY_COUNT enters exactly one
\* handler, the callback registered for that key if one is registered at that
\* moment and KEY_EventHandler otherwise (so again after
\* KEY_UnregisterCallback(id)); KEY_RegisterCallback and
\* KEY_UnregisterCallback with id >= KEY_COUNT leave the callback table as it
\* was.
C19_OneHandlerPerEvent ==
  /\ \A i \in DOMAIN key.log :
       (key.log[i].op = "emit_event" /\ key.log[i].id < KEY_COUNT) =>
         key.log[i].invoked = <<KeyHandlerAfter(i - 1, key.log[i].id)>>
  /\ (/\ key.log # <<>>
      /\ key.log[Len(key.log)].op \in {"KEY_RegisterCallback", "KEY_UnregisterCallback"}
      /\ key.log[Len(key.log)].id >= KEY_COUNT) => key.callbacks = key.before

\* C19 witness: a callback was registered for key 0, an event of key 0 entered
\* it alone, the callback was unregistered, and the next event of key 0
\* entered KEY_EventHandler alone
C19_Witness ==
  /\ Len(key.log) = 4
  /\ key.log[1] = KeyEntry("KEY_RegisterCallback", 0, <<"on_key_a">>, "none", <<>>)
  /\ key.log[2] = KeyEntry("emit_event", 0, NULL, "KEY_EV_PRESS", <<(<<"on_key_a">>)>>)
  /\ key.log[3] = KeyEntry("KEY_UnregisterCallback", 0, NULL, "none", <<>>)
  /\ key.log[4] = KeyEntry("emit_event", 0, NULL, "KEY_EV_CLICK", <<KEY_EventHandler>>)

\* the number of bytes the page writes before the i-th carry
RECURSIVE BytesBefore(_)
BytesBefore(i) == IF i <= 1 THEN 0 ELSE BytesBefore(i - 1) + qspi.pages[i - 1].len

\* C20: while QSPI_W25Qxx_WriteBuffer(pBuffer, WriteAddr, Size) with Size > 0
\* runs and no flash command has failed, its page writes cover
\* [WriteAddr, WriteAddr + Size) exactly once: the i-th starts where the one
\* before it ended, at a higher address, and takes its data from the same
\* offset of the buffer; none is longer than 256 bytes and none crosses a
\* 256-byte page boundary; together they carry no more than Size bytes, and
\* Size bytes when the function has returned.
C20_PageWritesCoverRange ==
  (/\ qspi.pc \in {"loop", "done"}
   /\ qspi.Size # NullPtr
   /\ qspi.ret = QSPI_W25Qxx_OK
   /\ \A i \in DOMAIN qspi.pages : qspi.pages[i].res = QSPI_W25Qxx_OK) =>
    /\ \A i \in DOMAIN qspi.pages :
         /\ qspi.pages[i].addr = Add32(qspi.WriteAddr, ToUint32(BytesBefore(i)))
         /\ qspi.pages[i].src = ToUint32(BytesBefore(i))
         /\ qspi.pages[i].len <= W25Qxx_PageSize
         /\ Mod32(qspi.pages[i].addr, W25Qxx_PageSize) + qspi.pages[i].len <= W25Qxx_PageSize
         /\ i > 1 => Less32(qspi.pages[i - 1].addr, qspi.pages[i].addr)
    /\ ~Less32(qspi.Size, ToUint32(BytesBefore(Len(qspi.pages) + 1)))
    /\ qspi.pc = "done" => ToUint32(BytesBefore(Len(qspi.pages) + 1)) = qspi.Size

\* C21: when QSPI_W25Qxx_WriteBuffer has returned, its result names the step
\* that failed: W25Qxx_ERROR_WriteEnable when a write enable failed (its
\* command or its poll, HAL calls 1 to 4), W25Qxx_ERROR_TRANSMIT when the
\* program command or the data transfer failed (5, 6),
\* W25Qxx_ERROR_AUTOPOLLING when a busy poll got no response (7, 8), and
\* QSPI_W25Qxx_OK only when nothing failed and the page writes carry Size
\* bytes; a call in which a HAL call failed has returned, so that it writes
\* no further page.
C21_ResultNamesFailingStep ==
  /\ (qspi.pc = "loop") => qspi.hal = 0
  /\ (qspi.pc = "done") =>
       /\ qspi.hal \in 1..4 => qspi.ret = W25Qxx_ERROR_WriteEnable
       /\ qspi.hal \in 5..6 => qspi.ret = W25Qxx_ERROR_TRANSMIT
       /\ qspi.hal \in 7..8 => qspi.ret = W25Qxx_ERROR_AUTOPOLLING
       /\ qspi.ret = QSPI_W25Qxx_OK =>
            /\ qspi.hal = 0
            /\ qspi.WriteAddr[1] < 65535 =>
                 ToUint32(BytesBefore(Len(qspi.pages) + 1)) = qspi.Size

C23_DoubleClickWithinWindow ==
  \A i \in KeyIds :
    KeyEmitted(key, i, "KEY_EV_DOUBLE_CLICK") =>
      /\ Len(key.shortRel[i]) = 2
      /\ key.shortRel[i][2] = key.elapsed
      /\ key.shortRel[i][2] - key.shortRel[i][1] <= KEY_DBL_MS

\* C24: after a KEY_EV_PRESS of a key and before its next KEY_EV_RELEASE,
\* KEY_Task emits KEY_EV_LONG_PRESS at most once, and only in a call at least
\* KEY_LONG_MS after the call that emitted the press.
C24_LongPressOnceAfterHold ==
  \A i \in KeyIds :
    /\ key.longs[i] <= 1
    /\ KeyEmitted(key, i, "KEY_EV_LONG_PRESS") =>
         /\ key.pressAt[i] >= 0
         /\ key.elapsed - key.pressAt[i] >= KEY_LONG_MS
         /\ ~Less32(Sub32(Add32(key.tick0, ToUint32(key.elapsed)), key.press_ts[i]),
                    ToUint32(KEY_LONG_MS))

\* C24 witness: key 0 was pressed 40 ms after KEY_Init, its long press was
\* emitted 600 ms later and the key is still held a call after that
C24_Witness ==
  /\ key.pressAt[0] = 40
  /\ key.elapsed = 660
  /\ key.longs[0] = 1
  /\ key.long_reported[0] = 1
  /\ key.stable_state[0] = 1
  /\ key.events = <<>>

\* a later record of the populated part of the legacy table holds key k too
LegacyRepeated(k) ==
  LET p == LegacyPos(k)
  IN p # -1 /\ \E j \in (p + 1)..(LegacyEnd - 1) : GBEntry(j).gbk_code = k

\* a later record of the UTF-8 table holds the first n bytes of text too
Utf8Repeated(text, n) ==
  LET p == Utf8Pos(text, n)
  IN p # -1 /\ \E j \in (p + 1)..(MaxEntries - 1) :
                  /\ U8Entry(j).utf8_len = n
                  /\ SubSeq(U8Entry(j).utf8, 1, n) = SubSeq(text, 1, n)

\* C25 as stated: when several records before the end of the scan hold the
\* key, GB2312_FindIndex_Flash and UTF8_FindIndex_Flash return the index of
\* the record at the lowest table position.
C25_FirstMatchIndex ==
  /\ (GBIndexCall /\ LegacyRepeated(BigEndianKey(call.bytes))) =>
       call.ret = GBEntry(LegacyPos(BigEndianKey(call.bytes))).index
  /\ (U8IndexCall /\ Utf8Repeated(call.text, call.len)) =>
       call.ret = U8Entry(Utf8Pos(call.text, call.len)).index

\* C25, amended: the value returned is the index field of the record at the
\* lowest position converted to int16_t, whatever the later records holding
\* the same key say.
C25_FirstMatchAsInt16 ==
  /\ (GBIndexCall /\ LegacyRepeated(BigEndianKey(call.bytes))) =>
       call.ret = AsSigned16(GBEntry(LegacyPos(BigEndianKey(call.bytes))).index)
  /\ (U8IndexCall /\ Utf8Repeated(call.text, call.len)) =>
       call.ret = AsSigned16(U8Entry(Utf8Pos(call.text, call.len)).index)

\* C25 witness: "你" is recorded at positions 0 and 1 of the UTF-8 table under
\* indexes 5 and 7, and the lookup returns 5
C25_Witness ==
  /\ U8IndexCall
  /\ call.len = 3
  /\ Utf8Pos(call.text, 3) = 0
  /\ U8Entry(0).index = 5
  /\ U8Entry(1) = U8Rec(3, <<228, 189, 160, 0>>, 7)
  /\ call.text = <<228, 189, 160, 0>>
  /\ call.ret = 5

\* C26: once a FlashFont_Init call has succeeded the ready flag stays set,
\* also through a later FlashFont_Init call that fails: that call returns -1
\* and leaves the flag as it was, and the lookups made afterwards read the
\* tables (they do not fail fast as before the first successful call).
C26_FlagStaysSet ==
  /\ everOk => g_font_initialized = 1
  /\ (call.op = "FlashFont_Init" /\ call.ret < 0) =>
       call.ret = -1 /\ g_font_initialized = call.gPre
  /\ (everOk /\ call.op \in {"GB2312_FindIndex_Flash", "GB2312_FindFont_Flash"}) =>
       call.reads > 0
  /\ (everOk /\ call.op = "UTF8_FindIndex_Flash" /\ call.len \in 1..4) =>
       call.reads > 0
  /\ (everOk /\ call.op = "UTF8_FindFont_Flash" /\ call.len # 0) => call.reads > 0

\* C26 witness: the flag sector was erased after a successful call, and a
\* second FlashFont_Init call has failed with the flag still set
C26_Witness ==
  /\ call.op = "FlashFont_Init"
  /\ call.ret = -1
  /\ call.gPre = 1
  /\ everOk
  /\ flagMagic = <<65535, 65535>>
  /\ g_font_initialized = 1

\* the call that has just returned read the memory-mapped window
WindowRead ==
  \/ call.op = "FlashFont_Init"
  \/ call.op \in FontFns /\ call.reads > 0

\* C27: once QSPI_W25Qxx_MemoryMappedMode has been called (as init_all does
\* before FlashFont_Init, whatever the call returned), the QSPI controller is
\* in memory-mapped mode whenever FlashFont_Init or a font lookup reads the
\* memory-mapped window, also after erase and write calls of the driver.
C27_MappedWhenWindowRead ==
  (qspi.mmCalled /\ WindowRead) => qspi.mode = "mapped"

\* the flash offset of the region that follows the glyphs of font size s
NextRegion(s) ==
  CASE s = 12 -> FONT_16x16_ADDR
    [] s = 16 -> FONT_20x20_ADDR
    [] s = 20 -> FONT_24x24_ADDR
    [] s = 24 -> FONT_32x32_ADDR
    [] s = 32 -> GB2312_TABLE_ADDR

\* C28: the regions of the blob do not overlap.  The glyph of index i in
\* 0..7463 at a font size s of {12,16,20,24,32} starts at
\* base(s) + 18 + i * bytes_per_glyph(s) and ends at or before the base of the
\* next region; the records read from the legacy table (12-byte header,
\* 4-byte records) end at or before the UTF-8 table, and those read from the
\* UTF-8 table (12-byte header, 8-byte records) at or before the flag.
C28_RegionsDisjoint ==
  /\ (FontCall /\ call.index \in 0..(MaxEntries - 1) /\ call.size \in FontSizes) =>
       LET bytes == FlashFont_BytesPerChar(call.size)
           start == WindowOffset(call.ret)
       IN /\ start = GetFontBaseAddr(call.size) + FontHeaderLen + call.index * bytes
          /\ start + bytes <= NextRegion(call.size)
  /\ call.op \in GBFns => GB2312_ReadEnd(call.reads) <= UTF8_TABLE_ADDR
  /\ (LookupCall /\ call.op \notin GBFns) => UTF8_ReadEnd(call.reads) <= FONT_FLAG_ADDR

\* C28 witness: the last glyph of the 32x32 font, index 7463, ends 14 bytes
\* before the legacy table
C28_Witness ==
  /\ call.op = "GB2312_FindFont_Flash"
  /\ call.index = MaxEntries - 1
  /\ call.size = 32
  /\ WindowOffset(call.ret) + 128 = GB2312_TABLE_ADDR - 14

\* a lookup has read all 7464 records of the UTF-8 table
Utf8TableReadToEnd ==
  /\ call.op = "UTF8_FindIndex_Flash"
  /\ call.reads = MaxEntries
  /\ UTF8_ReadEnd(call.reads) = UTF8_TABLE_ADDR + 59724

====
